---- MODULE Spec2Model ----
(***************************************************************************)
(* Model of the MCP connector awareness engine: the calibrator             *)
(* (src/src/calibrator.ts), the state manager (src/src/state-manager.ts),  *)
(* the enforcer (src/src/enforcer.ts) and the health monitor               *)
(* (src/unnamed/part_000).                                                 *)
(*                                                                         *)
(* JavaScript values are modelled as follows.  An object is a record whose *)
(* domain is the set of its own keys; a key that is absent is not in the   *)
(* domain.  The value undefined is the string Undefined, null held in an   *)
(* object-valued field is the record Null, and an optional value (a file   *)
(* that may not exist, a result not yet produced) is a set with at most    *)
(* one element.                                                            *)
(***************************************************************************)
EXTENDS Integers, Sequences, FiniteSets, TLC

\* ------------------------------------------------------------------ bounds

\* The caller makes at most MaxOps calls (of calibrate() or verify()) in one
\* behaviour, each awaited before the next.
MaxOps == 2

\* ------------------------------------------------------------ JS values

Undefined == "undefined"
Null == [isNull |-> TRUE]

\* The connectors, in the order calibrate() and verify() list them.
ConnectorOrder == <<"asana", "linear", "github", "notion">>
Connectors == {ConnectorOrder[i] : i \in 1..Len(ConnectorOrder)}

\* Restriction of the record r to the keys in ks.
Restrict(r, ks) == [k \in ks |-> r[k]]

\* The keys of the modelled payloads whose value may be undefined (the other
\* values are strings, numbers or objects that are always there).
OptionalKeys == {"email"}

\* What JSON.stringify keeps of a flat object: the keys whose value is not
\* undefined.
DropUndefined(obj) ==
  Restrict(obj, {k \in DOMAIN obj : ~(k \in OptionalKeys /\ obj[k] = Undefined)})

\* --------------------------------------------- connector clients (§6)

\* Payloads of a successful "who am I" call, per connector.  email is
\* optional in the identity payload: the Asana payload carries none.
IdentityPayloads(c) ==
  CASE c = "asana" ->
         {[name |-> "Ann", email |-> Undefined, gid |-> "au1"]}
    [] c = "linear" ->
         {[name |-> "Ann", email |-> "ann@x", id |-> "lu1", admin |-> "false"]}
    [] c = "github" ->
         {[login |-> "ann", email |-> "ann@x", id |-> "gu1",
           public_repos |-> 2, total_private_repos |-> 1]}
    [] c = "notion" ->
         {[id |-> "nb1", name |-> "bot",
           bot |-> [workspace_name |-> "Notes", workspace_id |-> "nw1",
                    owner_email |-> "ann@x", workspace_limits |-> "limits"]]}

\* Payloads of a successful "list top-level containers" call, per connector:
\* an ordered list, possibly empty.  Notion has no such call.
ContainerPayloads(c) ==
  CASE c = "asana" ->
         {<<>>,
          <<[name |-> "Main", gid |-> "aw1", is_organization |-> "true"],
            [name |-> "Side", gid |-> "aw2", is_organization |-> "false"]>>}
    [] c = "linear" ->
         {<<[name |-> "Core", key |-> "COR", id |-> "lt1"]>>}
    [] c = "github" -> {<<>>}
    [] c = "notion" -> {}

\* The message of the error a failing call throws.
ErrorMessage(op) == IF op = "identity" THEN "identity call failed"
                    ELSE "container listing failed"

\* ------------------------------------------------------------------ state

VARIABLES
  now,          \* the clock (new Date()), in instants
  dataDir,      \* whether the data directory exists
  calFile,      \* content of data/calibration.json: {} or {snapshot}
  yamlFile,     \* calibration-state.yaml: {} or {timestamp of the exported snapshot}
  calPc,        \* position of the calibrate() call
  opCount,      \* calls of calibrate() and verify() made so far
  probe,        \* per connector: position and data of its calibrateX() task
  calCalls,     \* connector calls issued by the current calibrate()
  calState,     \* the state object calibrate() builds: {} or {state}
  calResult,    \* the value calibrate() resolved with: {} or {state}
  calError,     \* the error calibrate() rejected with: {} or {message}
  prevFile,     \* content of calibration.json when calibrate() was called
  verPc,        \* position of the verify() call
  verLoaded,    \* what load() returned to verify(): {} or {snapshot}
  verOutcome,   \* per connector: outcome of its identity call in verify()
  verChecks,    \* per connector: the boolean verifyX() resolved with
  verCalls,     \* connector calls issued by the current verify()
  verResult,    \* the value verify() resolved with: {} or {boolean}
  verBefore,    \* content of calibration.json when verify() was called
  enfPc,        \* position of the enforce() call
  enfPass,      \* 1 for a caller's call, n+1 for enforce() of the nth result's enhanced call
  enfCall,      \* the ToolCall object passed to enforce(): [tool, params (a reference)]
  enfInput,     \* the keys and values of the params object when enforce() was called
  heap,         \* the params objects, by reference
  enfLoaded,    \* what load() returned to enforce(): {} or {snapshot}
  enfLookup,    \* whether this enforce() called searchForId
  enfResult,    \* the EnforcementResult being built, returned when enfPc = "returned"
  enfPrev,      \* the previous pass: {} or {[result, params]}
  healthFile,   \* content of data/health.json: {} or {health snapshot}
  tasks,        \* the saveHealth()/runHealthCheck() calls made, in order of their start
  stPc,         \* position of the caller's load()/loadHealth()/needsRecalibration() call
  stRet,        \* what that call resolved with: {} or {[op, value]}
  lastSaved,    \* the snapshot given to the latest save() that resolved: {} or {state}
  lastSavedHealth, \* the snapshot given to the latest saveHealth() that resolved
  monitoringActive, \* the monitor's flag
  timers,       \* the setInterval timers created and not cleared
  pendingTicks, \* the timers due in the current period whose callback has not run yet
  launched,     \* the cycles the timers' callbacks launched in the current period
  monHist,      \* the start() and stop() calls made so far, in order
  inFlightAtStop, \* the cycles that were in flight at the latest stop()
  pagPc,        \* executeWithPagination(): idle, fetching (awaiting executeTool) or returned
  pagCall,      \* the toolCall it was given
  pagResults,   \* results
  pagHasMore,   \* hasMore
  pagCursor,    \* cursor
  pagAttempts,  \* attempts
  pagRequest,   \* the ToolCall given to executeTool and not answered yet: {} or {call}
  pagExecuted,  \* history: how many times executeTool was called
  pagLast,      \* history: the response handled last: {} or {response}
  pagReturn     \* {} or {the array returned}

calVars == <<calPc, probe, calCalls, calState, calResult, calError, prevFile>>
verVars == <<verPc, verLoaded, verOutcome, verChecks, verCalls, verResult,
             verBefore>>
storeVars == <<dataDir, calFile, yamlFile>>
enfVars == <<enfPc, enfPass, enfCall, enfInput, heap, enfLoaded, enfLookup, enfResult,
             enfPrev>>
monVars == <<monitoringActive, timers, pendingTicks, launched, monHist, inFlightAtStop>>
pagVars == <<pagPc, pagCall, pagResults, pagHasMore, pagCursor, pagAttempts, pagRequest,
             pagExecuted, pagLast, pagReturn>>
extVars == <<healthFile, tasks, stPc, stRet, lastSaved, lastSavedHealth, monVars, pagVars>>
vars == <<now, opCount, storeVars, calVars, verVars, enfVars, extVars>>

\* --------------------------------------------------- calibrator.ts: probes

EmptyObject == [k \in {} |-> Undefined]

\* obj with key k set to v (obj.k = v).
SetKey(obj, k, v) == [x \in DOMAIN obj \cup {k} |-> IF x = k THEN v ELSE obj[x]]

\* A catch branch that keeps an identity field beside the error.
FailedStatusKeepsUser(msg, t) ==
  [status |-> "failed", error |-> msg, user |-> Null, last_verified |-> t]

\* The catch branch of every calibrateX(): status failed, the error's message.
FailedStatus(msg, t) ==
  [status |-> "failed", error |-> msg, last_verified |-> t]

\* The success branch of calibrateAsana().
AsanaStatus(user, workspaces, t) ==
  [status |-> "authenticated",
   user |-> [name |-> user.name, email |-> user.email, gid |-> user.gid],
   workspace |-> IF Len(workspaces) > 0
                 THEN [name |-> workspaces[1].name, gid |-> workspaces[1].gid,
                       is_organization |-> workspaces[1].is_organization]
                 ELSE Null,
   last_verified |-> t]

\* The success branch of calibrateLinear().
LinearStatus(user, teams, t) ==
  [status |-> "authenticated",
   user |-> [name |-> user.name, email |-> user.email, id |-> user.id,
             admin |-> user.admin],
   team |-> IF Len(teams) > 0
            THEN [name |-> teams[1].name, key |-> teams[1].key, id |-> teams[1].id]
            ELSE Null,
   last_verified |-> t]

\* The success branch of calibrateGitHub(): the repository list is not used.
GitHubStatus(user, repos, t) ==
  [status |-> "authenticated",
   user |-> [login |-> user.login, email |-> user.email, id |-> user.id,
             repos |-> user.public_repos + user.total_private_repos],
   stats |-> [public_repos |-> user.public_repos,
              private_repos |-> user.total_private_repos],
   last_verified |-> t]

\* The success branch of calibrateNotion(): one call, no container listing.
NotionStatus(bot, t) ==
  [status |-> "authenticated",
   workspace |-> [name |-> bot.bot.workspace_name, id |-> bot.bot.workspace_id,
                  owner |-> bot.bot.owner_email,
                  plan |-> IF bot.bot.workspace_limits # Undefined
                           THEN "Plus+AI" ELSE "Basic"],
   bot |-> [id |-> bot.id, name |-> bot.name],
   last_verified |-> t]

\* How a calibrateX() task settles when a call it awaits rejects with msg:
\* the try/catch turns the rejection into a resolved, failed ConnectorStatus.
ProbeErrorPropagates(msg, t) ==
  [settled |-> "rejected", value |-> FailedStatus(msg, t)]

ProbeError(msg, t) ==
  [settled |-> "resolved", value |-> FailedStatus(msg, t)]

\* Whether calibrateX() of connector c makes a second, container-listing call.
HasContainerCall(c) == c # "notion"

\* The ConnectorStatus calibrateX() returns when all its calls succeeded.
AuthenticatedStatus(c, user, containers, t) ==
  CASE c = "asana" -> AsanaStatus(user, containers, t)
    [] c = "linear" -> LinearStatus(user, containers, t)
    [] c = "github" -> GitHubStatus(user, containers, t)
    [] c = "notion" -> NotionStatus(user, t)

\* A calibrateX() task: pc is idle, identity (awaiting the identity call),
\* containers (awaiting the listing call) or done; idCall and listCall record
\* how each call ended (none, pending, ok, fail); user holds the identity
\* payload while the listing call is awaited (a local of the task); result holds the ConnectorStatus the task resolved with.
IdleProbe ==
  [pc |-> "idle", idCall |-> "none", listCall |-> "none", user |-> {}, result |-> {}]

IdentityFields == {"user", "workspace", "team", "stats", "bot"}

\* ------------------------------------------------ state-manager.ts: save

\* JSON.stringify of a ConnectorStatus: keys with an undefined value vanish.
StringifyStatus(cs) ==
  [k \in DOMAIN cs |-> IF k = "user" THEN DropUndefined(cs[k]) ELSE cs[k]]

\* JSON.stringify(state, null, 2), as the value JSON.parse reads back.
Stringify(state) ==
  [timestamp |-> state.timestamp,
   connectors |-> [c \in DOMAIN state.connectors |->
                     StringifyStatus(state.connectors[c])]]

\* The entry of a connector merged over its entry in the old snapshot: the
\* keys of the new entry win, the old entry's other keys stay.
MergeEntry(oldEntry, newEntry) ==
  [k \in DOMAIN oldEntry \cup DOMAIN newEntry |->
     IF k \in DOMAIN newEntry THEN newEntry[k] ELSE oldEntry[k]]

\* A write that merges the new snapshot into the stored one.
WriteCalibrationMerging(old, state) ==
  LET new == Stringify(state)
  IN  IF old = {} THEN {new}
      ELSE {[new EXCEPT !.connectors =
               [c \in DOMAIN new.connectors |->
                  IF c \in DOMAIN o.connectors
                  THEN MergeEntry(o.connectors[c], new.connectors[c])
                  ELSE new.connectors[c]]] : o \in old}

\* fs.writeFile(calibrationPath, JSON.stringify(state)): the new content of
\* the file, given its old content.
WriteCalibration(old, state) == {Stringify(state)}

\* fs.readFile + JSON.parse in load(): null (here {}) on ENOENT.
Load(file) == file

\* ------------------------------------------------ calibrator.ts: calibrate

\* Whether no call of calibrate() or verify() is in flight.
CallerIdle ==
  /\ calPc \in {"idle", "returned", "rejected"}
  /\ verPc \in {"idle", "returned"}


\* Promise.all hands back the tasks' results by position; calibrate() assigns
\* them to state.connectors by name, in declaration order.
AssembleConnectors(results) ==
  LET a == SetKey(EmptyObject, "asana", results[1])
      l == SetKey(a, "linear", results[2])
      g == SetKey(l, "github", results[3])
  IN  SetKey(g, "notion", results[4])

\* calibrate() is called: it builds the state object and starts the four
\* calibrateX() tasks, each of which runs up to its first await.  The clock
\* is coarse: every call of calibrate() reads a later instant than the call
\* before it, and the clock does not advance while the call is in flight.
CalibrateStart ==
  /\ CallerIdle
  /\ opCount < MaxOps
  /\ opCount' = opCount + 1
  /\ calPc' = "probing"
  /\ now' = now + 1
  /\ calState' = {[timestamp |-> now', connectors |-> EmptyObject]}
  /\ calResult' = {}
  /\ calError' = {}
  /\ prevFile' = calFile
  /\ probe' = [c \in Connectors |-> [IdleProbe EXCEPT !.pc = "identity",
                                                      !.idCall = "pending"]]
  /\ calCalls' = {<<c, "identity">> : c \in Connectors}
  /\ verPc' = "idle"
  /\ verBefore' = {}
  /\ verLoaded' = {}
  /\ verOutcome' = [c \in Connectors |-> "none"]
  /\ verChecks' = [c \in Connectors |-> "none"]
  /\ verCalls' = {}
  /\ verResult' = {}
  /\ UNCHANGED storeVars
  /\ UNCHANGED enfVars
  /\ UNCHANGED extVars

\* The identity call of connector c resolves.
ProbeIdentityOk(c) ==
  /\ calPc = "probing"
  /\ probe[c].pc = "identity"
  /\ \E user \in IdentityPayloads(c) :
       IF HasContainerCall(c)
       THEN /\ probe' = [probe EXCEPT ![c].pc = "containers", ![c].idCall = "ok",
                                      ![c].listCall = "pending", ![c].user = {user}]
            /\ calCalls' = calCalls \cup {<<c, "containers">>}
       ELSE /\ probe' = [probe EXCEPT ![c].pc = "done", ![c].idCall = "ok",
                           ![c].result = {AuthenticatedStatus(c, user, <<>>, now)}]
            /\ calCalls' = calCalls
  /\ UNCHANGED <<now, opCount, storeVars, verVars, calPc, calState, calResult, calError, prevFile>>
  /\ UNCHANGED enfVars
  /\ UNCHANGED extVars

\* A call awaited by the task of connector c rejects.  A task that resolves
\* is done; a task that rejected would make Promise.all, and so calibrate(),
\* reject with its error.
ProbeFails(c, op) ==
  LET s == ProbeError(ErrorMessage(op), now)
      p == IF op = "identity"
           THEN [probe[c] EXCEPT !.pc = "done", !.idCall = "fail"]
           ELSE [probe[c] EXCEPT !.pc = "done", !.listCall = "fail", !.user = {}]
  IN  IF s.settled = "resolved"
      THEN /\ probe' = [probe EXCEPT ![c] = [p EXCEPT !.result = {s.value}]]
           /\ UNCHANGED <<calPc, calError>>
      ELSE /\ probe' = [probe EXCEPT ![c] = p]
           /\ calPc' = "rejected"
           /\ calError' = {ErrorMessage(op)}

\* The identity call of connector c rejects: the catch branch.
ProbeIdentityFail(c) ==
  /\ calPc = "probing"
  /\ probe[c].pc = "identity"
  /\ ProbeFails(c, "identity")
  /\ UNCHANGED <<now, opCount, storeVars, verVars, calCalls, calState, calResult,
                 prevFile>>
  /\ UNCHANGED enfVars
  /\ UNCHANGED extVars

\* The container listing of connector c resolves.
ProbeContainersOk(c) ==
  /\ calPc = "probing"
  /\ probe[c].pc = "containers"
  /\ \E list \in ContainerPayloads(c), user \in probe[c].user :
       probe' = [probe EXCEPT ![c].pc = "done", ![c].listCall = "ok", ![c].user = {},
                   ![c].result = {AuthenticatedStatus(c, user, list, now)}]
  /\ UNCHANGED <<now, opCount, storeVars, verVars, calPc, calCalls, calState,
                 calResult, calError, prevFile>>
  /\ UNCHANGED enfVars
  /\ UNCHANGED extVars

\* The container listing of connector c rejects: the catch branch.
ProbeContainersFail(c) ==
  /\ calPc = "probing"
  /\ probe[c].pc = "containers"
  /\ ProbeFails(c, "containers")
  /\ UNCHANGED <<now, opCount, storeVars, verVars, calCalls, calState, calResult,
                 prevFile>>
  /\ UNCHANGED enfVars
  /\ UNCHANGED extVars

\* Whether Promise.all over the four tasks has resolved.
AllSettled(pr) == \A c \in Connectors : pr[c].pc = "done"

\* Promise.all resolves: the results are assigned to state.connectors and
\* save(state) is called, which runs up to its first await (mkdir).
CalibrateAssemble ==
  /\ calPc = "probing"
  /\ AllSettled(probe)
  /\ \E st \in calState :
       LET results == [i \in 1..Len(ConnectorOrder) |->
                         CHOOSE r \in probe[ConnectorOrder[i]].result : TRUE]
       IN  calState' = {[st EXCEPT !.connectors = AssembleConnectors(results)]}
  /\ calPc' = "mkdir"
  /\ UNCHANGED <<now, opCount, storeVars, verVars, probe, calCalls, calResult, calError, prevFile>>
  /\ UNCHANGED enfVars
  /\ UNCHANGED extVars

\* --------------------------------------------------- state-manager.ts: save

SaveMkdirOk ==
  /\ calPc = "mkdir"
  /\ dataDir' = TRUE
  /\ calPc' = "writeJson"
  /\ UNCHANGED <<now, opCount, calFile, yamlFile, verVars, probe, calCalls,
                 calState, calResult, calError, prevFile>>
  /\ UNCHANGED enfVars
  /\ UNCHANGED extVars

\* mkdir rejects: save() logs and rethrows, calibrate() rejects.
SaveMkdirFail ==
  /\ calPc = "mkdir"
  /\ calPc' = "rejected"
  /\ calError' = {"mkdir failed"}
  /\ UNCHANGED <<now, opCount, storeVars, verVars, probe, calCalls, calState,
                 calResult, prevFile>>
  /\ UNCHANGED enfVars
  /\ UNCHANGED extVars

SaveWriteOk ==
  /\ calPc = "writeJson"
  /\ \E st \in calState : calFile' = WriteCalibration(calFile, st)
  /\ calPc' = "writeYaml"
  /\ UNCHANGED <<now, opCount, dataDir, yamlFile, verVars, probe, calCalls,
                 calState, calResult, calError, prevFile>>
  /\ UNCHANGED enfVars
  /\ UNCHANGED extVars

\* writeFile rejects: save() logs and rethrows, calibrate() rejects.
SaveWriteFail ==
  /\ calPc = "writeJson"
  /\ calPc' = "rejected"
  /\ calError' = {"writeFile failed"}
  /\ UNCHANGED <<now, opCount, storeVars, verVars, probe, calCalls, calState,
                 calResult, prevFile>>
  /\ UNCHANGED enfVars
  /\ UNCHANGED extVars

\* exportYAML() wrote the export; save() resolves and calibrate() returns state.
ExportYamlOk ==
  /\ calPc = "writeYaml"
  /\ \E st \in calState : yamlFile' = {Stringify(st).timestamp}
  /\ calPc' = "returned"
  /\ calResult' = calState
  /\ UNCHANGED <<now, opCount, dataDir, calFile, verVars, probe, calCalls,
                 calState, calError, prevFile>>
  /\ UNCHANGED enfVars
  /\ lastSaved' = calState
  /\ UNCHANGED <<healthFile, tasks, stPc, stRet, lastSavedHealth, monVars, pagVars>>

\* An exportYAML() whose failure propagates out of save().
ExportYamlFailRejects ==
  /\ calPc = "writeYaml"
  /\ calPc' = "rejected"
  /\ calError' = {"yaml export failed"}
  /\ UNCHANGED <<now, opCount, storeVars, verVars, probe, calCalls, calState,
                 calResult, prevFile>>
  /\ UNCHANGED enfVars
  /\ UNCHANGED extVars

\* exportYAML() failed: it logs and swallows; save() resolves all the same.
ExportYamlFail ==
  /\ calPc = "writeYaml"
  /\ calPc' = "returned"
  /\ calResult' = calState
  /\ UNCHANGED <<now, opCount, storeVars, verVars, probe, calCalls, calState, calError, prevFile>>
  /\ UNCHANGED enfVars
  /\ lastSaved' = calState
  /\ UNCHANGED <<healthFile, tasks, stPc, stRet, lastSavedHealth, monVars, pagVars>>

\* --------------------------------------------------- calibrator.ts: verify

\* verifyX(): true when the identity call resolved, false when it rejected.
VerifyConnector(outcome) == outcome = "ok"

\* verifications.some(v => v)
SomeValid(checks) == \E c \in Connectors : checks[c] = TRUE

\* verifications.every(v => v)
AllValid(checks) == \A c \in Connectors : checks[c] = TRUE

\* A verify() that drops the stored snapshot when a connector fails.
StoreAfterVerifyInvalidates(file, allValid) == IF allValid THEN file ELSE {}

\* What verify() leaves in data/calibration.json: it never writes the file.
StoreAfterVerify(file, allValid) == file

\* verify() is called and runs up to its first await: stateManager.load().
VerifyStart ==
  /\ CallerIdle
  /\ opCount < MaxOps
  /\ opCount' = opCount + 1
  /\ verPc' = "load"
  /\ verLoaded' = {}
  /\ verOutcome' = [c \in Connectors |-> "none"]
  /\ verChecks' = [c \in Connectors |-> "none"]
  /\ verCalls' = {}
  /\ verResult' = {}
  /\ verBefore' = calFile
  /\ calPc' = "idle"
  /\ probe' = [c \in Connectors |-> IdleProbe]
  /\ calCalls' = {}
  /\ calState' = {}
  /\ calResult' = {}
  /\ calError' = {}
  /\ prevFile' = {}
  /\ UNCHANGED <<now, storeVars>>
  /\ UNCHANGED enfVars
  /\ UNCHANGED extVars

\* load() resolves.  Without a snapshot verify() returns false; with one it
\* starts the four verifyX() tasks, each up to its identity call.
VerifyLoad ==
  /\ verPc = "load"
  /\ verLoaded' = Load(calFile)
  /\ IF Load(calFile) = {}
     THEN /\ verPc' = "returned"
          /\ verResult' = {FALSE}
          /\ UNCHANGED <<verOutcome, verCalls>>
     ELSE /\ verPc' = "checking"
          /\ verOutcome' = [c \in Connectors |-> "pending"]
          /\ verCalls' = {<<c, "identity">> : c \in Connectors}
          /\ UNCHANGED verResult
  /\ UNCHANGED <<now, opCount, storeVars, calVars, verChecks, verBefore>>
  /\ UNCHANGED enfVars
  /\ UNCHANGED extVars

\* The identity call verifyX() of connector c awaits resolves or rejects.
VerifyIdentity(c) ==
  /\ verPc = "checking"
  /\ verOutcome[c] = "pending"
  /\ \E outcome \in {"ok", "fail"} :
       /\ verOutcome' = [verOutcome EXCEPT ![c] = outcome]
       /\ verChecks' = [verChecks EXCEPT ![c] = VerifyConnector(outcome)]
  /\ UNCHANGED <<now, opCount, storeVars, calVars, verPc, verLoaded, verCalls,
                 verResult, verBefore>>
  /\ UNCHANGED enfVars
  /\ UNCHANGED extVars

\* Promise.all resolves and verify() returns allValid.
VerifyFinish ==
  /\ verPc = "checking"
  /\ \A c \in Connectors : verOutcome[c] # "pending"
  /\ verPc' = "returned"
  /\ verResult' = {AllValid(verChecks)}
  /\ calFile' = StoreAfterVerify(calFile, AllValid(verChecks))
  /\ UNCHANGED <<now, opCount, dataDir, yamlFile, calVars, verLoaded, verOutcome,
                 verChecks, verCalls, verBefore>>
  /\ UNCHANGED enfVars
  /\ UNCHANGED extVars

\* ------------------------------------------------------- the specification

\* The calibrator and the store of a fresh process with no stored snapshot.
InitCalibrator ==
  /\ now = 0
  /\ dataDir = FALSE
  /\ calFile = {}
  /\ yamlFile = {}
  /\ calPc = "idle"
  /\ opCount = 0
  /\ probe = [c \in Connectors |-> IdleProbe]
  /\ calCalls = {}
  /\ calState = {}
  /\ calResult = {}
  /\ calError = {}
  /\ prevFile = {}
  /\ verPc = "idle"
  /\ verLoaded = {}
  /\ verOutcome = [c \in Connectors |-> "none"]
  /\ verChecks = [c \in Connectors |-> "none"]
  /\ verCalls = {}
  /\ verResult = {}
  /\ verBefore = {}

\* No enforce() call is made.
NoEnforce ==
  /\ enfPc = "idle"
  /\ enfPass = 0
  /\ enfCall = [tool |-> <<>>, params |-> 0]
  /\ enfInput = EmptyObject
  /\ heap = <<>>
  /\ enfLoaded = {}
  /\ enfLookup = FALSE
  /\ enfResult = {}
  /\ enfPrev = {}

\* No health snapshot is stored, and no call of the state manager's other
\* operations or of the monitor has been made.
NoStoreCalls ==
  /\ healthFile = {}
  /\ tasks = <<>>
  /\ stPc = "idle"
  /\ stRet = {}
  /\ lastSaved = {}
  /\ lastSavedHealth = {}
  /\ monitoringActive = FALSE
  /\ timers = 0
  /\ pendingTicks = 0
  /\ launched = 0
  /\ monHist = <<>>
  /\ inFlightAtStop = {}

\* executeWithPagination() has not been called.
NoPagination ==
  /\ pagPc = "idle"
  /\ pagCall = [tool |-> <<>>, params |-> EmptyObject]
  /\ pagResults = <<>>
  /\ pagHasMore = TRUE
  /\ pagCursor = "<null>"
  /\ pagAttempts = 0
  /\ pagRequest = {}
  /\ pagExecuted = 0
  /\ pagLast = {}
  /\ pagReturn = {}

Init == InitCalibrator /\ NoEnforce /\ NoStoreCalls /\ NoPagination

Next ==
  \/ CalibrateStart
  \/ \E c \in Connectors : ProbeIdentityOk(c)
  \/ \E c \in Connectors : ProbeIdentityFail(c)
  \/ \E c \in Connectors : ProbeContainersOk(c)
  \/ \E c \in Connectors : ProbeContainersFail(c)
  \/ CalibrateAssemble
  \/ SaveMkdirOk
  \/ SaveMkdirFail
  \/ SaveWriteOk
  \/ SaveWriteFail
  \/ ExportYamlOk
  \/ ExportYamlFail
  \/ VerifyStart
  \/ VerifyLoad
  \/ \E c \in Connectors : VerifyIdentity(c)
  \/ VerifyFinish

Spec == Init /\ [][Next]_vars

\* ============================================================ enforcer.ts

\* ------------------------------------------------------------- JS values

\* Values a caller may pass in params, other than a non-empty string.
JsEmpty == "<empty string>"
JsZero == "<0>"
JsFalse == "<false>"
JsNull == "<null>"

\* The values that count as false in a condition (!x).
Falsy == {Undefined, JsEmpty, JsZero, JsFalse, JsNull}
Truthy(v) == v \notin Falsy

\* obj.k: undefined when obj has no key k.
Get(obj, k) == IF k \in DOMAIN obj THEN obj[k] ELSE Undefined

\* Object.assign(obj, src)
AssignAll(obj, src) ==
  [k \in DOMAIN obj \cup DOMAIN src |-> IF k \in DOMAIN src THEN src[k] ELSE obj[k]]

\* Strings that are searched are sequences of characters.
\* s.startsWith(p)
StartsWith(s, p) == Len(s) >= Len(p) /\ SubSeq(s, 1, Len(p)) = p

\* s.includes(p)
Includes(s, p) ==
  \E i \in 1..(Len(s) - Len(p) + 1) : SubSeq(s, i, i + Len(p) - 1) = p

Str_asana == <<"a", "s", "a", "n", "a">>
Str_linear == <<"l", "i", "n", "e", "a", "r">>
Str_notion == <<"n", "o", "t", "i", "o", "n">>
Str_github == <<"g", "i", "t", "h", "u", "b">>
Str_list_tasks == <<"l", "i", "s", "t", "_", "t", "a", "s", "k", "s">>
Str_list_projects == <<"l", "i", "s", "t", "_", "p", "r", "o", "j", "e", "c", "t", "s">>
Str_list_issues == <<"l", "i", "s", "t", "_", "i", "s", "s", "u", "e", "s">>
Str_get_issues == <<"g", "e", "t", "_", "i", "s", "s", "u", "e", "s">>
Str_list_pull_requests == <<"l", "i", "s", "t", "_", "p", "u", "l", "l", "_", "r", "e", "q", "u", "e", "s", "t", "s">>
Str_list_commits == <<"l", "i", "s", "t", "_", "c", "o", "m", "m", "i", "t", "s">>
Str_search_ == <<"s", "e", "a", "r", "c", "h", "_">>
Str_get_comments == <<"g", "e", "t", "_", "c", "o", "m", "m", "e", "n", "t", "s">>
Str_list_cycles == <<"l", "i", "s", "t", "_", "c", "y", "c", "l", "e", "s">>
Str_create_issue == <<"c", "r", "e", "a", "t", "e", "_", "i", "s", "s", "u", "e">>
Str_create_task == <<"c", "r", "e", "a", "t", "e", "_", "t", "a", "s", "k">>
Str_create_project == <<"c", "r", "e", "a", "t", "e", "_", "p", "r", "o", "j", "e", "c", "t">>
Str_add_labels == <<"a", "d", "d", "_", "l", "a", "b", "e", "l", "s">>

\* --------------------------------------------------------------- rule 1

\* The four injections of injectIdentifiers(), in the order of the code: the
\* tool prefix, the parameter filled, the snapshot field read
\* (state.connectors[connector][field][id]) and the modification recorded.
InjectionRules ==
  <<[connector |-> "asana", prefix |-> Str_asana, param |-> "workspace",
     field |-> "workspace", id |-> "gid", note |-> "Injected Asana workspace ID"],
    [connector |-> "linear", prefix |-> Str_linear, param |-> "teamId",
     field |-> "team", id |-> "id", note |-> "Injected Linear team ID"],
    [connector |-> "notion", prefix |-> Str_notion, param |-> "workspace_id",
     field |-> "workspace", id |-> "id", note |-> "Injected Notion workspace ID"],
    [connector |-> "github", prefix |-> Str_github, param |-> "owner",
     field |-> "user", id |-> "login", note |-> "Injected GitHub owner"]>>

InjectionNotes == {InjectionRules[i].note : i \in 1..Len(InjectionRules)}

\* state?.connectors?.[connector]?.[field] is truthy: the snapshot exists, has
\* the connector's entry, and the entry's field is an object (not null).
SnapshotHolds(state, rule) ==
  \E s \in state :
    /\ rule.connector \in DOMAIN s.connectors
    /\ rule.field \in DOMAIN s.connectors[rule.connector]
    /\ s.connectors[rule.connector][rule.field] # Null

\* state.connectors[connector][field][id]
SnapshotId(state, rule) ==
  LET s == CHOOSE x \in state : TRUE
  IN  s.connectors[rule.connector][rule.field][rule.id]

\* The enforcer's working state is m = [result, heap]: the EnforcementResult
\* and the params objects it refers to.
\* The params object of the enhanced call.
EnhancedParams(m) == m.heap[m.result.enhanced.params]

\* An injection that does not look at what the caller supplied.
InjectOneAlways(m, state, rule) ==
  IF /\ StartsWith(m.result.enhanced.tool, rule.prefix)
     /\ SnapshotHolds(state, rule)
  THEN [result |-> [m.result EXCEPT !.modifications = Append(@, rule.note)],
        heap |-> [m.heap EXCEPT ![m.result.enhanced.params] =
                    SetKey(@, rule.param, SnapshotId(state, rule))]]
  ELSE m

\* One if-statement of injectIdentifiers(): the assignment goes to
\* result.enhanced.params, the object the reference designates.
InjectOne(m, state, rule) ==
  IF /\ StartsWith(m.result.enhanced.tool, rule.prefix)
     /\ ~Truthy(Get(EnhancedParams(m), rule.param))
     /\ SnapshotHolds(state, rule)
  THEN [result |-> [m.result EXCEPT !.modifications = Append(@, rule.note)],
        heap |-> [m.heap EXCEPT ![m.result.enhanced.params] =
                    SetKey(@, rule.param, SnapshotId(state, rule))]]
  ELSE m

\* injectIdentifiers(result, state): the four if-statements in order.
InjectIdentifiers(m, state) ==
  InjectOne(InjectOne(InjectOne(InjectOne(m, state, InjectionRules[1]),
                                state, InjectionRules[2]),
                      state, InjectionRules[3]),
            state, InjectionRules[4])

\* --------------------------------------------------------------- rule 2

\* A test that takes a name for unresolved whatever teamId holds.
HasNameIgnoringTeamId(params) ==
  \/ /\ Truthy(Get(params, "name"))
     /\ ~Truthy(Get(params, "id"))
     /\ ~Truthy(Get(params, "gid"))
  \/ (Truthy(Get(params, "teamName")) /\ ~Truthy(Get(params, "teamId")))
  \/ (Truthy(Get(params, "projectName")) /\ ~Truthy(Get(params, "projectId")))

\* hasNameInsteadOfId(params)
HasNameInsteadOfId(params) ==
  \/ /\ Truthy(Get(params, "name"))
     /\ ~Truthy(Get(params, "id"))
     /\ ~Truthy(Get(params, "gid"))
     /\ ~Truthy(Get(params, "teamId"))
  \/ (Truthy(Get(params, "teamName")) /\ ~Truthy(Get(params, "teamId")))
  \/ (Truthy(Get(params, "projectName")) /\ ~Truthy(Get(params, "projectId")))

\* A lookup that finds an id for the name.
SearchForIdFinds(tool, params) == {[id |-> "found"]}

\* searchForId(tool, params): logs and returns null (here {}).
SearchForId(tool, params) == {}

\* The rest of resolveIdentifiers() once searchForId resolved with resolved:
\* a non-null result is merged into the params and recorded.
MergeResolved(m, resolved) ==
  IF resolved # {}
  THEN [result |-> [m.result EXCEPT !.modifications = Append(@, "Resolved name to ID")],
        heap |-> [m.heap EXCEPT ![m.result.enhanced.params] =
                    AssignAll(@, CHOOSE r \in resolved : TRUE)]]
  ELSE m

\* --------------------------------------------------------------- rule 3

PaginationTools ==
  {Str_list_tasks, Str_list_projects, Str_list_issues, Str_get_issues,
   Str_list_pull_requests, Str_list_commits, Str_search_, Str_get_comments,
   Str_list_cycles}

\* A match on the start of the tool name only.
RequiresPaginationPrefix(toolCall) ==
  \E pattern \in PaginationTools : StartsWith(toolCall.tool, pattern)

\* requiresPagination(toolCall)
RequiresPagination(toolCall) ==
  \E pattern \in PaginationTools : Includes(toolCall.tool, pattern)

\* A rule 3 that sets the flag and records nothing.
EnforcePaginationUnrecorded(m, toolCall) ==
  IF RequiresPagination(toolCall)
  THEN [m EXCEPT !.result = SetKey(m.result, "enforce_pagination", TRUE)]
  ELSE m

\* Rule 3 in enforce(): the flag and its modification.
EnforcePagination(m, toolCall) ==
  IF RequiresPagination(toolCall)
  THEN [m EXCEPT !.result =
          [SetKey(m.result, "enforce_pagination", TRUE)
             EXCEPT !.modifications = Append(@, "Pagination enforcement enabled")]]
  ELSE m

\* --------------------------------------------------------------- rule 4

ChainingPatterns == {Str_create_issue, Str_create_task, Str_create_project}

\* requiresChaining(toolCall)
RequiresChaining(toolCall) ==
  \E pattern \in ChainingPatterns : Includes(toolCall.tool, pattern)

\* A reference no params object has yet.
NewRef(h) == Cardinality(DOMAIN h)

\* A chain whose first call has toolCall's tool and a new, empty params object.
BuildOperationChainBare(toolCall, h) ==
  [chain |-> <<[tool |-> toolCall.tool, params |-> NewRef(h)]>>,
   heap |-> [r \in DOMAIN h \cup {NewRef(h)} |->
               IF r = NewRef(h) THEN EmptyObject ELSE h[r]]]

\* buildOperationChain(toolCall): the chain starts with toolCall; a
\* create_issue call whose params.labels is truthy is followed by an
\* add_labels call with a new params object holding the labels.
BuildOperationChain(toolCall, h) ==
  IF Includes(toolCall.tool, Str_create_issue) /\ Truthy(Get(h[toolCall.params], "labels"))
  THEN [chain |-> <<toolCall, [tool |-> Str_add_labels, params |-> NewRef(h)]>>,
        heap |-> [r \in DOMAIN h \cup {NewRef(h)} |->
                    IF r = NewRef(h) THEN [labels |-> h[toolCall.params].labels]
                    ELSE h[r]]]
  ELSE [chain |-> <<toolCall>>, heap |-> h]

\* Rule 4 in enforce(): the chain and its modification.
ChainOperations(m, toolCall) ==
  LET b == BuildOperationChain(toolCall, m.heap)
  IN  [result |-> [SetKey(m.result, "chain_operations", b.chain)
                     EXCEPT !.modifications = Append(@, "Operation chaining configured")],
       heap |-> b.heap]


\* ------------------------------------------------- enforce(): the inputs

\* A caller passes at most MaxParams parameters.
MaxParams == 2
\* enforce() is applied at most MaxPasses times: to the caller's call, then
\* to the enhanced call of the result before.
MaxPasses == 2

Tool_asana_list_tasks == <<"a", "s", "a", "n", "a", "_", "l", "i", "s", "t", "_", "t", "a", "s", "k", "s">>
Tool_linear_create_issue == <<"l", "i", "n", "e", "a", "r", "_", "c", "r", "e", "a", "t", "e", "_", "i", "s", "s", "u", "e">>
Tool_github_get_issue == <<"g", "i", "t", "h", "u", "b", "_", "g", "e", "t", "_", "i", "s", "s", "u", "e">>
Tool_notion_search_pages == <<"n", "o", "t", "i", "o", "n", "_", "s", "e", "a", "r", "c", "h", "_", "p", "a", "g", "e", "s">>
Tool_list_issues == <<"l", "i", "s", "t", "_", "i", "s", "s", "u", "e", "s">>
Tool_get_issue == <<"g", "e", "t", "_", "i", "s", "s", "u", "e">>
Tool_create_issue == <<"c", "r", "e", "a", "t", "e", "_", "i", "s", "s", "u", "e">>
Tool_create_task == <<"c", "r", "e", "a", "t", "e", "_", "t", "a", "s", "k">>
Tool_LIST_TASKS == <<"L", "I", "S", "T", "_", "T", "A", "S", "K", "S">>
Tool_my_asana_list_projects == <<"m", "y", "_", "a", "s", "a", "n", "a", "_", "l", "i", "s", "t", "_", "p", "r", "o", "j", "e", "c", "t", "s">>

\* The tool names enforce() is called with.
ToolNames ==
  {Tool_asana_list_tasks,
   Tool_linear_create_issue,
   Tool_github_get_issue,
   Tool_notion_search_pages,
   Tool_list_issues,
   Tool_get_issue,
   Tool_create_issue,
   Tool_create_task,
   Tool_LIST_TASKS,
   Tool_my_asana_list_projects}

IdentifierParams == {"workspace", "teamId", "workspace_id", "owner"}
NameParams == {"name", "teamName", "projectName"}
IdParams == {"id", "gid", "projectId"}
ParamKeys == IdentifierParams \cup NameParams \cup IdParams \cup {"labels"}

\* The values a caller passes for key k: an identifier parameter may be
\* supplied empty, zero or null as well as with an identifier of the
\* caller's own; labels is an array (empty or not) or null.
ParamValues(k) ==
  IF k \in IdentifierParams THEN {JsEmpty, JsZero, JsNull, "mine"}
  ELSE IF k \in NameParams THEN {"Foo"}
  ELSE IF k \in IdParams THEN {"i1"}
  ELSE {"[bug]", "[]", JsNull}

AllParamValues == UNION {ParamValues(k) : k \in ParamKeys}

\* The params objects enforce() is called with.
ParamSets ==
  UNION {{ps \in [ks -> AllParamValues] : \A k \in ks : ps[k] \in ParamValues(k)} :
           ks \in {x \in SUBSET ParamKeys : Cardinality(x) <= MaxParams}}

\* The ConnectorStatus calibrateX() produces for an outcome: ok (all calls
\* succeeded, a non-empty container list), empty (all calls succeeded, no
\* container) or fail.
EntryFor(c, outcome, t) ==
  LET user == CHOOSE u \in IdentityPayloads(c) : TRUE
      full == IF \E l \in ContainerPayloads(c) : Len(l) > 0
              THEN CHOOSE l \in ContainerPayloads(c) : Len(l) > 0
              ELSE <<>>
  IN  CASE outcome = "fail" -> FailedStatus(ErrorMessage("identity"), t)
        [] outcome = "empty" -> AuthenticatedStatus(c, user, <<>>, t)
        [] outcome = "ok" -> AuthenticatedStatus(c, user, full, t)

\* The snapshot calibrate() stores for a vector of outcomes.
SnapshotFor(outcomes, t) ==
  Stringify([timestamp |-> t,
             connectors |-> AssembleConnectors(
               [i \in 1..Len(ConnectorOrder) |->
                  EntryFor(ConnectorOrder[i], outcomes[i], t)])])

\* Contents of data/calibration.json that calibrate() leaves behind: none,
\* all connectors authenticated, all failed, and a mixed one in which asana
\* has no workspace and linear failed.
StoredFiles ==
  {{},
   {SnapshotFor(<<"ok", "ok", "ok", "ok">>, 1)},
   {SnapshotFor(<<"fail", "fail", "fail", "fail">>, 1)},
   {SnapshotFor(<<"empty", "fail", "ok", "ok">>, 1)}}

\* ------------------------------------------------ enforce(): the actions

sysVars == <<now, opCount, dataDir, yamlFile, calVars, verVars, extVars>>

\* The EnforcementResult enforce() starts from: original is toolCall itself
\* and enhanced is { ...toolCall }, a new ToolCall with the same tool and the
\* same params reference (the spread copies one level).
InitialResult(toolCall) ==
  [original |-> toolCall,
   enhanced |-> [tool |-> toolCall.tool, params |-> toolCall.params],
   modifications |-> <<>>]

\* The working state [result, heap] of the enforce() call in progress.
EnforceMachine == [result |-> CHOOSE r \in enfResult : TRUE, heap |-> heap]

\* load() resolves: the result is created, rule 1 runs, and
\* resolveIdentifiers() runs up to searchForId when a name lacks its id.
EnforceLoad ==
  /\ enfPc = "load"
  /\ LET state == Load(calFile)
         m == InjectIdentifiers([result |-> InitialResult(enfCall), heap |-> heap],
                                state)
     IN  /\ enfLoaded' = state
         /\ enfResult' = {m.result}
         /\ heap' = m.heap
         /\ enfLookup' = HasNameInsteadOfId(EnhancedParams(m))
  /\ enfPc' = "resolve"
  /\ UNCHANGED <<sysVars, calFile, enfPass, enfCall, enfInput, enfPrev>>

\* resolveIdentifiers() resolves (after searchForId, when it was called);
\* rule 3 runs, and rule 4 calls buildOperationChain() for a create tool.
EnforceResolve ==
  /\ enfPc = "resolve"
  /\ LET m1 == IF enfLookup
               THEN MergeResolved(EnforceMachine,
                                  SearchForId(enfCall.tool, EnhancedParams(EnforceMachine)))
               ELSE EnforceMachine
         m2 == EnforcePagination(m1, enfCall)
     IN  /\ enfResult' = {m2.result}
         /\ heap' = m2.heap
  /\ enfPc' = IF RequiresChaining(enfCall) THEN "chain" ELSE "returned"
  /\ UNCHANGED <<sysVars, calFile, enfPass, enfCall, enfInput, enfLoaded, enfLookup,
                 enfPrev>>

\* buildOperationChain() resolves; enforce() records the chain and returns.
EnforceChain ==
  /\ enfPc = "chain"
  /\ LET m == ChainOperations(EnforceMachine, enfCall)
     IN  /\ enfResult' = {m.result}
         /\ heap' = m.heap
  /\ enfPc' = "returned"
  /\ UNCHANGED <<sysVars, calFile, enfPass, enfCall, enfInput, enfLoaded, enfLookup,
                 enfPrev>>

\* The caller passes the enhanced call of the result to enforce() again.
EnforceAgain ==
  /\ enfPc = "returned"
  /\ enfPass < MaxPasses
  /\ enfPass' = enfPass + 1
  /\ \E r \in enfResult :
       /\ enfCall' = r.enhanced
       /\ enfInput' = heap[r.enhanced.params]
       /\ enfPrev' = {[result |-> r, params |-> heap[r.enhanced.params]]}
  /\ enfPc' = "load"
  /\ enfLoaded' = {}
  /\ enfLookup' = FALSE
  /\ enfResult' = {}
  /\ UNCHANGED <<sysVars, calFile, heap>>

\* A caller calls enforce({tool, params}) over a stored calibration file;
\* enforce() runs up to its first await, stateManager.load().
InitEnforce ==
  /\ now = 1
  /\ opCount = 0
  /\ calFile \in StoredFiles
  /\ dataDir = (calFile # {})
  /\ yamlFile = {f.timestamp : f \in calFile}
  /\ calPc = "idle"
  /\ probe = [c \in Connectors |-> IdleProbe]
  /\ calCalls = {}
  /\ calState = {}
  /\ calResult = {}
  /\ calError = {}
  /\ prevFile = {}
  /\ verPc = "idle"
  /\ verLoaded = {}
  /\ verOutcome = [c \in Connectors |-> "none"]
  /\ verChecks = [c \in Connectors |-> "none"]
  /\ verCalls = {}
  /\ verResult = {}
  /\ verBefore = {}
  /\ NoStoreCalls
  /\ NoPagination
  /\ enfPc = "load"
  /\ enfPass = 1
  /\ \E tool \in ToolNames, params \in ParamSets :
       /\ enfCall = [tool |-> tool, params |-> 0]
       /\ enfInput = params
       /\ heap = [r \in {0} |-> params]
  /\ enfLoaded = {}
  /\ enfLookup = FALSE
  /\ enfResult = {}
  /\ enfPrev = {}

NextEnforce ==
  \/ EnforceLoad
  \/ EnforceResolve
  \/ EnforceChain
  \/ EnforceAgain

SpecEnforce == InitEnforce /\ [][NextEnforce]_vars


\* ===================================== state-manager.ts: the other operations

\* The clock counts instants of half an hour.
TicksPerHour == 2
\* The clock stops at MaxTime.
MaxTime == 3
\* A caller of the state manager makes at most MaxStoreOps calls, each awaited
\* before the next.
MaxStoreOps == 3

\* ------------------------------------------------------ health snapshots

\* A check that reports a connector that is not valid as 'warning'.
ConnectorHealthWarns(valid, latency, t) ==
  [status |-> IF valid THEN "healthy" ELSE "warning",
   latency_ms |-> latency,
   last_check |-> t]

\* What checkX() resolves with once verifyX() resolved with valid.
ConnectorHealthOf(valid, latency, t) ==
  [status |-> IF valid THEN "healthy" ELSE "failed",
   latency_ms |-> latency,
   last_check |-> t]

\* An aggregation that is degraded only when every connector failed.
OverallDegradedWhenAllFailed(statuses) ==
  IF \A i \in DOMAIN statuses : statuses[i] = "healthy" THEN "healthy"
  ELSE IF \A i \in DOMAIN statuses : statuses[i] = "failed" THEN "degraded"
  ELSE "warning"

\* The overall health of runHealthCheck(), from the connectors' statuses.
OverallOf(statuses) ==
  IF \A i \in DOMAIN statuses : statuses[i] = "healthy" THEN "healthy"
  ELSE IF \E i \in DOMAIN statuses : statuses[i] = "failed" THEN "degraded"
  ELSE "warning"

\* The HealthStatus runHealthCheck() builds from the four checks, in the
\* order of Promise.all; timestamp is the instant the cycle began.
BuildHealth(timestamp, checks) ==
  LET connectors == AssembleConnectors(checks)
      statuses == [i \in 1..Len(ConnectorOrder) |-> connectors[ConnectorOrder[i]].status]
  IN  [timestamp |-> timestamp,
       overall |-> OverallOf(statuses),
       connectors |-> connectors]

\* JSON.stringify of a HealthStatus: every value is defined, nothing is dropped.
StringifyHealth(health) ==
  [timestamp |-> health.timestamp,
   overall |-> health.overall,
   connectors |-> [c \in DOMAIN health.connectors |->
                     DropUndefined(health.connectors[c])]]

\* The outcomes of the four verifyX() calls of one cycle that are tried.
CheckOutcomes ==
  {<<"ok", "ok", "ok", "ok">>,
   <<"fail", "ok", "ok", "ok">>,
   <<"ok", "ok", "ok", "fail">>,
   <<"ok", "fail", "fail", "ok">>,
   <<"fail", "fail", "fail", "fail">>}

\* The HealthStatus of a cycle begun at start whose checks settled at t.
HealthFor(outcomes, start, t) ==
  BuildHealth(start,
              [i \in 1..Len(ConnectorOrder) |->
                 ConnectorHealthOf(VerifyConnector(outcomes[i]), t - start, t)])

\* ------------------------------------------------- saveHealth(), by task

\* A saveHealth(health) call, up to its first await (mkdir).
SaveHealthTask(health) == [kind |-> "saveHealth", pc |-> "mkdir", health |-> {health}]

TaskSettled(t) == t.pc \in {"done", "rejected"}

\* Whether no call of the caller is in flight.
StoreIdle ==
  /\ CallerIdle
  /\ stPc = "idle"
  /\ \A i \in DOMAIN tasks : TaskSettled(tasks[i])

HealthMkdirOk(i) ==
  /\ tasks[i].pc = "mkdir"
  /\ dataDir' = TRUE
  /\ tasks' = [tasks EXCEPT ![i].pc = "write"]
  /\ UNCHANGED <<now, opCount, calFile, yamlFile, calVars, verVars, enfVars, pagVars, monVars,
                 healthFile, stPc, stRet, lastSaved, lastSavedHealth>>

\* mkdir rejects: saveHealth() logs and rethrows.
HealthMkdirFail(i) ==
  /\ tasks[i].pc = "mkdir"
  /\ tasks' = [tasks EXCEPT ![i].pc = "rejected", ![i].health = {}]
  /\ UNCHANGED <<now, opCount, storeVars, calVars, verVars, enfVars, pagVars, monVars,
                 healthFile, stPc, stRet, lastSaved, lastSavedHealth>>

\* A writeFile that merges the snapshot into the one stored.
WriteHealthMerging(old, health) ==
  IF old = {} THEN {StringifyHealth(health)}
  ELSE {[StringifyHealth(health) EXCEPT !.overall = o.overall] : o \in old}

\* writeFile(healthPath, JSON.stringify(health)): the file is replaced.
WriteHealth(old, health) == {StringifyHealth(health)}

\* writeFile resolves: saveHealth() logs and resolves.
HealthWriteOk(i) ==
  /\ tasks[i].pc = "write"
  /\ \E h \in tasks[i].health : healthFile' = WriteHealth(healthFile, h)
  /\ lastSavedHealth' = tasks[i].health
  /\ tasks' = [tasks EXCEPT ![i].pc = "done", ![i].health = {}]
  /\ UNCHANGED <<now, opCount, storeVars, calVars, verVars, enfVars, pagVars, monVars,
                 stPc, stRet, lastSaved>>

\* writeFile rejects: saveHealth() logs and rethrows.
HealthWriteFail(i) ==
  /\ tasks[i].pc = "write"
  /\ tasks' = [tasks EXCEPT ![i].pc = "rejected", ![i].health = {}]
  /\ UNCHANGED <<now, opCount, storeVars, calVars, verVars, enfVars, pagVars, monVars,
                 healthFile, stPc, stRet, lastSaved, lastSavedHealth>>

\* ---------------------------------------------- the state manager's caller

\* Time passes between the calls and while needsRecalibration() awaits
\* load(); the other operations do not read the clock after they began.
Tick ==
  /\ now < MaxTime
  /\ CallerIdle
  /\ stPc \in {"idle", "needsRecalibration"}
  /\ \A i \in DOMAIN tasks : TaskSettled(tasks[i])
  /\ now' = now + 1
  /\ UNCHANGED <<opCount, storeVars, calVars, verVars, enfVars, pagVars, monVars, extVars>>

\* The caller calls save(state) with a snapshot calibrate() could have built
\* now; save() runs up to its first await (mkdir).
StoreSave(outcomes) ==
  /\ StoreIdle
  /\ opCount < MaxStoreOps
  /\ opCount' = opCount + 1
  /\ calState' = {[timestamp |-> now,
                   connectors |-> AssembleConnectors(
                     [i \in 1..Len(ConnectorOrder) |->
                        EntryFor(ConnectorOrder[i], outcomes[i], now)])]}
  /\ calPc' = "mkdir"
  /\ calResult' = {}
  /\ calError' = {}
  /\ stPc' = "idle"
  /\ stRet' = {}
  /\ UNCHANGED <<now, storeVars, probe, calCalls, prevFile, verVars, enfVars, pagVars, monVars,
                 healthFile, tasks, lastSaved, lastSavedHealth>>

\* The caller calls saveHealth(health) with a snapshot a cycle could have
\* built now.
StoreSaveHealth(outcomes) ==
  /\ StoreIdle
  /\ opCount < MaxStoreOps
  /\ opCount' = opCount + 1
  /\ tasks' = Append(tasks, SaveHealthTask(HealthFor(outcomes, now, now)))
  /\ stPc' = "idle"
  /\ stRet' = {}
  /\ calPc' = "idle"
  /\ calState' = {}
  /\ calResult' = {}
  /\ calError' = {}
  /\ UNCHANGED <<now, storeVars, probe, calCalls, prevFile, verVars, enfVars, pagVars, monVars,
                 healthFile, lastSaved, lastSavedHealth>>

\* The caller calls load(), loadHealth() or needsRecalibration(maxAgeHours);
\* the call runs up to readFile.
StoreCall(op, arg) ==
  /\ StoreIdle
  /\ opCount < MaxStoreOps
  /\ opCount' = opCount + 1
  /\ stPc' = op
  /\ stRet' = {[op |-> op, arg |-> arg]}
  /\ UNCHANGED <<now, storeVars, calVars, verVars, enfVars, pagVars, monVars,
                 healthFile, tasks, lastSaved, lastSavedHealth>>

\* loadHealth(): the parsed file, or null (here {}) when there is none.
LoadHealth(file) == file

\* getCalibrationAge(): null without a snapshot, else ageMs / (1000*60*60),
\* here the fraction of ticks over TicksPerHour.
GetCalibrationAge(state, t) ==
  {[num |-> t - s.timestamp, den |-> TicksPerHour] : s \in state}

\* age >= maxAgeHours
AgeAtLeast(age, maxAgeHours) == age.num >= maxAgeHours * age.den

\* age > maxAgeHours, for an age in hours given as a fraction.
AgeExceeds(age, maxAgeHours) == age.num > maxAgeHours * age.den

\* needsRecalibration(maxAgeHours), once load() resolved with state at t.
NeedsRecalibration(state, t, maxAgeHours) ==
  LET age == GetCalibrationAge(state, t)
  IN  IF age = {} THEN TRUE
      ELSE AgeExceeds(CHOOSE a \in age : TRUE, maxAgeHours)

\* readFile settles and the call resolves.
StoreResolve ==
  /\ stPc # "idle"
  /\ \E r \in stRet :
       stRet' = {[op |-> r.op, arg |-> r.arg, at |-> now,
                  value |-> CASE r.op = "load" -> Load(calFile)
                              [] r.op = "loadHealth" -> LoadHealth(healthFile)
                              [] r.op = "needsRecalibration" ->
                                   NeedsRecalibration(Load(calFile), now, r.arg)]}
  /\ stPc' = "idle"
  /\ UNCHANGED <<now, opCount, storeVars, calVars, verVars, enfVars, pagVars, monVars,
                 healthFile, tasks, lastSaved, lastSavedHealth>>

\* The values of maxAgeHours tried.
MaxAgeHours == {0, 1}

\* The outcomes of calibrate() whose snapshots are given to save().
SaveOutcomes ==
  {<<"ok", "ok", "ok", "ok">>, <<"empty", "fail", "ok", "ok">>}

\* The outcomes of a cycle whose snapshots are given to saveHealth().
SaveHealthOutcomes ==
  {<<"ok", "ok", "ok", "ok">>, <<"fail", "ok", "ok", "ok">>}

NextStore ==
  \/ Tick
  \/ \E o \in SaveOutcomes : StoreSave(o)
  \/ SaveMkdirOk
  \/ SaveMkdirFail
  \/ SaveWriteOk
  \/ SaveWriteFail
  \/ ExportYamlOk
  \/ ExportYamlFail
  \/ \E o \in SaveHealthOutcomes : StoreSaveHealth(o)
  \/ \E i \in DOMAIN tasks : HealthMkdirOk(i)
  \/ \E i \in DOMAIN tasks : HealthMkdirFail(i)
  \/ \E i \in DOMAIN tasks : HealthWriteOk(i)
  \/ \E i \in DOMAIN tasks : HealthWriteFail(i)
  \/ StoreCall("load", 0)
  \/ StoreCall("loadHealth", 0)
  \/ \E h \in MaxAgeHours : StoreCall("needsRecalibration", h)
  \/ StoreResolve

SpecStore == Init /\ [][NextStore]_vars


\* ====================================================== the health monitor

\* At most MaxMonitorCalls calls of start() and stop() are made.
MaxMonitorCalls == 3
\* At most MaxCycles check cycles are launched.
MaxCycles == 3
\* At most MaxPeriods periods of the timers elapse.
MaxPeriods == 1

\* runHealthCheck() up to its first await: the timestamp is taken and the
\* four checks are started.  order records the checks that resolved one by
\* one, earliest first, each with its outcome.
CycleTask(origin, t) ==
  [kind |-> "cycle", pc |-> "checking", health |-> {}, start |-> t, origin |-> origin,
   checks |-> [c \in Connectors |-> "pending"], alert |-> {}, order |-> <<>>]

\* The cycles launched so far.
Cycles == {i \in DOMAIN tasks : tasks[i].kind = "cycle"}

\* A start() that never finds the monitor active.
NeverActive(active) == FALSE

\* start(): if (this.monitoringActive) return
AlreadyActive(active) == active

\* start(): a no-op when already active; otherwise the flag is set, a cycle
\* is launched (not awaited) and a timer is created.
MonitorStart ==
  /\ Len(monHist) < MaxMonitorCalls
  /\ monHist' = Append(monHist, "start")
  /\ IF AlreadyActive(monitoringActive)
     THEN UNCHANGED <<monitoringActive, tasks, timers>>
     ELSE /\ Len(tasks) < MaxCycles
          /\ monitoringActive' = TRUE
          /\ tasks' = Append(tasks, CycleTask("start", now))
          /\ timers' = timers + 1
  /\ UNCHANGED <<now, opCount, storeVars, calVars, verVars, enfVars, pagVars,
                 healthFile, stPc, stRet, lastSaved, lastSavedHealth,
                 pendingTicks, launched, inFlightAtStop>>

\* stop(): the flag is cleared; no timer is cleared.
MonitorStop ==
  /\ Len(monHist) < MaxMonitorCalls
  /\ monHist' = Append(monHist, "stop")
  /\ monitoringActive' = FALSE
  /\ inFlightAtStop' = {i \in Cycles : ~TaskSettled(tasks[i])}
  /\ UNCHANGED <<now, opCount, storeVars, calVars, verVars, enfVars, pagVars,
                 healthFile, tasks, stPc, stRet, lastSaved, lastSavedHealth,
                 timers, pendingTicks, launched>>

\* One period (checkIntervalMs) elapses: every timer becomes due once.
PeriodElapses ==
  /\ now < MaxPeriods
  /\ pendingTicks = 0
  /\ now' = now + 1
  /\ pendingTicks' = timers
  /\ launched' = 0
  /\ UNCHANGED <<opCount, storeVars, calVars, verVars, enfVars, pagVars,
                 healthFile, tasks, stPc, stRet, lastSaved, lastSavedHealth,
                 monitoringActive, timers, monHist, inFlightAtStop>>

\* A timer callback that launches a cycle whatever the flag.
LaunchesAlways(active) == TRUE

\* The timer callback: if (this.monitoringActive) this.runHealthCheck()
LaunchesCycle(active) == active

\* The callback of a due timer runs.
TimerFires ==
  /\ pendingTicks > 0
  /\ pendingTicks' = pendingTicks - 1
  /\ IF LaunchesCycle(monitoringActive)
     THEN /\ Len(tasks) < MaxCycles
          /\ tasks' = Append(tasks, CycleTask("timer", now))
          /\ launched' = launched + 1
     ELSE UNCHANGED <<tasks, launched>>
  /\ UNCHANGED <<now, opCount, storeVars, calVars, verVars, enfVars, pagVars,
                 healthFile, stPc, stRet, lastSaved, lastSavedHealth,
                 monitoringActive, timers, monHist, inFlightAtStop>>

\* checkX() of cycle i resolves: verifyX() resolved with true or false.
CheckSettles(i, c, outcome) ==
  /\ tasks[i].kind = "cycle"
  /\ tasks[i].pc = "checking"
  /\ tasks[i].checks[c] = "pending"
  /\ tasks' = [tasks EXCEPT ![i].checks[c] = outcome,
                            ![i].order = Append(@, <<c, outcome>>)]
  /\ UNCHANGED <<now, opCount, storeVars, calVars, verVars, enfVars, pagVars,
                 healthFile, stPc, stRet, lastSaved, lastSavedHealth, monVars>>

\* alertOnFailure(): the names of the connectors whose status is 'failed', in
\* the order of Object.entries(health.connectors).
FailedConnectors(health) ==
  SelectSeq(ConnectorOrder, LAMBDA c : health.connectors[c].status = "failed")

\* What alertOnFailure(health) logs; it awaits nothing and throws nothing.
AlertOnFailure(health) == [failed |-> FailedConnectors(health)]

\* A cycle that alerts whatever its overall health.
AlertAlways(overall) == TRUE

\* runHealthCheck(): if (health.overall !== 'healthy')
AlertNeeded(overall) == overall # "healthy"

\* The task of a cycle after Promise.all resolved with the checks of
\* outcomes: the snapshot is built and logged, alertOnFailure() runs when it
\* is not healthy, and saveHealth() is called and runs up to mkdir.
Assembled(task, outcomes, t) ==
  LET health == HealthFor(outcomes, task.start, t)
  IN  [task EXCEPT !.pc = "mkdir",
                   !.checks = [c \in Connectors |-> "settled"],
                   !.health = {health},
                   !.alert = IF AlertNeeded(health.overall)
                             THEN {AlertOnFailure(health)}
                             ELSE {}]

\* A Promise.all that resolves with the results in the order of completion.
ResultsByCompletion(task) ==
  [k \in 1..Len(ConnectorOrder) |-> task.order[k][2]]

\* What Promise.all([checkAsana(), checkLinear(), checkGitHub(), checkNotion()])
\* resolves with: the results in the order of the array it was given.
ResultsByPosition(task) ==
  [k \in 1..Len(ConnectorOrder) |-> task.checks[ConnectorOrder[k]]]

\* Promise.all of cycle i resolves once the four checks have.
CycleAssemble(i) ==
  /\ tasks[i].kind = "cycle"
  /\ tasks[i].pc = "checking"
  /\ \A c \in Connectors : tasks[i].checks[c] # "pending"
  /\ tasks' = [tasks EXCEPT ![i] = Assembled(@, ResultsByPosition(@), now)]
  /\ UNCHANGED <<now, opCount, storeVars, calVars, verVars, enfVars, pagVars,
                 healthFile, stPc, stRet, lastSaved, lastSavedHealth, monVars>>

\* The four checks of cycle i and its Promise.all resolve, in one step.
CycleChecksSettle(i, outcomes) ==
  /\ tasks[i].kind = "cycle"
  /\ tasks[i].pc = "checking"
  /\ \A c \in Connectors : tasks[i].checks[c] = "pending"
  /\ tasks' = [tasks EXCEPT ![i] = Assembled(@, outcomes, now)]
  /\ UNCHANGED <<now, opCount, storeVars, calVars, verVars, enfVars, pagVars,
                 healthFile, stPc, stRet, lastSaved, lastSavedHealth, monVars>>

\* The outcomes of the checks tried where cycles run concurrently.
MonitorOutcomes == {<<"ok", "fail", "ok", "ok">>}

NextMonitor ==
  \/ MonitorStart
  \/ MonitorStop
  \/ PeriodElapses
  \/ TimerFires
  \/ \E i \in DOMAIN tasks : \E o \in MonitorOutcomes : CycleChecksSettle(i, o)
  \/ \E i \in DOMAIN tasks : HealthMkdirOk(i)
  \/ \E i \in DOMAIN tasks : HealthMkdirFail(i)
  \/ \E i \in DOMAIN tasks : HealthWriteOk(i)
  \/ \E i \in DOMAIN tasks : HealthWriteFail(i)

SpecMonitor == Init /\ [][NextMonitor]_vars

\* One cycle, check by check: start() launches it, each checkX() resolves on
\* its own, and the snapshot is saved.
NextCycle ==
  \/ MonitorStart
  \/ \E i \in DOMAIN tasks : \E c \in Connectors : CheckSettles(i, c, "ok")
  \/ \E i \in DOMAIN tasks : \E c \in Connectors : CheckSettles(i, c, "fail")
  \/ \E i \in DOMAIN tasks : CycleAssemble(i)
  \/ \E i \in DOMAIN tasks : HealthMkdirOk(i)
  \/ \E i \in DOMAIN tasks : HealthMkdirFail(i)
  \/ \E i \in DOMAIN tasks : HealthWriteOk(i)
  \/ \E i \in DOMAIN tasks : HealthWriteFail(i)

SpecCycle == Init /\ [][NextCycle]_vars


\* ============================================ enforcer.ts: executeWithPagination

\* private maxPaginationAttempts = 100
maxPaginationAttempts == 100

\* What executeTool() resolves with as the code stands: an empty page of
\* nodes that reports no next page.
MockResponse == [nodes |-> <<>>, pageInfo |-> [hasNextPage |-> FALSE]]

\* The pageInfo objects a page of nodes may carry.
PageInfos ==
  {[hasNextPage |-> FALSE],
   [hasNextPage |-> TRUE],
   [hasNextPage |-> TRUE, endCursor |-> "c1"]}

\* The responses of the tool behind executeTool(): the three shapes the loop
\* tells apart (a plain array, {nodes, pageInfo}, {data, next_page}), with
\* and without their paging fields, and an object of none of these shapes.
PageResponses ==
  {MockResponse}
    \cup {[isArray |-> TRUE, elements |-> <<"item">>]}
    \cup {[nodes |-> <<"item">>]}
    \cup {[nodes |-> <<"item">>, pageInfo |-> pi] : pi \in PageInfos}
    \cup {[data |-> <<"item">>]}
    \cup {[data |-> <<"item">>, next_page |-> "c1"]}
    \cup {[items |-> <<"item">>]}

\* The calls executeWithPagination() is given.
PaginatedCalls ==
  {[tool |-> Tool_list_issues, params |-> [cursor |-> "mine"]]}

\* Array.isArray(response)
IsArray(response) == "isArray" \in DOMAIN response

\* A loop that runs for as long as more pages are reported.
LoopGuardUncapped(hasMore, attempts) == hasMore

\* while (hasMore && attempts < this.maxPaginationAttempts)
LoopGuard(hasMore, attempts) == hasMore /\ attempts < maxPaginationAttempts

\* The ToolCall of one iteration: a copy of toolCall.params, with cursor,
\* after and offset set to the cursor when it is truthy.
PageRequest(toolCall, cursor) ==
  [tool |-> toolCall.tool,
   params |-> IF Truthy(cursor)
              THEN SetKey(SetKey(SetKey(toolCall.params, "cursor", cursor),
                                 "after", cursor),
                          "offset", cursor)
              ELSE toolCall.params]

\* The if / else-if chain on the response, applied to the loop's variables
\* l = [results, hasMore, cursor].
HandlePage(l, response) ==
  IF IsArray(response)
  THEN [l EXCEPT !.results = @ \o response.elements, !.hasMore = FALSE]
  ELSE IF "nodes" \in DOMAIN response
  THEN [results |-> l.results \o response.nodes,
        hasMore |-> /\ "pageInfo" \in DOMAIN response
                    /\ Get(response.pageInfo, "hasNextPage") = TRUE,
        cursor |-> IF "pageInfo" \in DOMAIN response
                   THEN Get(response.pageInfo, "endCursor")
                   ELSE Undefined]
  ELSE IF "data" \in DOMAIN response
  THEN [results |-> l.results \o response.data,
        hasMore |-> Truthy(Get(response, "next_page")),
        cursor |-> Get(response, "next_page")]
  ELSE l

\* executeWithPagination(toolCall) is called: the loop is entered and the
\* first page is asked for.
PaginateStart(toolCall) ==
  /\ pagPc = "idle"
  /\ pagCall' = toolCall
  /\ pagResults' = <<>>
  /\ pagCursor' = JsNull
  /\ pagAttempts' = 0
  /\ pagHasMore' = TRUE
  /\ pagLast' = {}
  /\ IF LoopGuard(TRUE, 0)
     THEN /\ pagPc' = "fetching"
          /\ pagRequest' = {PageRequest(toolCall, JsNull)}
          /\ pagExecuted' = 1
          /\ pagReturn' = {}
     ELSE /\ pagPc' = "returned"
          /\ pagRequest' = {}
          /\ pagExecuted' = 0
          /\ pagReturn' = {<<>>}
  /\ UNCHANGED <<now, opCount, storeVars, calVars, verVars, enfVars, healthFile, tasks,
                 stPc, stRet, lastSaved, lastSavedHealth, monVars>>

\* executeTool() resolves with response: the page is handled, attempts is
\* incremented, and the loop either asks for the next page or ends and
\* executeWithPagination() returns results.
PageArrives(response) ==
  /\ pagPc = "fetching"
  /\ LET l == HandlePage([results |-> pagResults, hasMore |-> pagHasMore,
                          cursor |-> pagCursor], response)
     IN  /\ pagResults' = l.results
         /\ pagHasMore' = l.hasMore
         /\ pagCursor' = l.cursor
         /\ pagAttempts' = pagAttempts + 1
         /\ pagLast' = {response}
         /\ IF LoopGuard(l.hasMore, pagAttempts + 1)
            THEN /\ pagRequest' = {PageRequest(pagCall, l.cursor)}
                 /\ pagExecuted' = pagExecuted + 1
                 /\ UNCHANGED <<pagPc, pagReturn>>
            ELSE /\ pagPc' = "returned"
                 /\ pagRequest' = {}
                 /\ pagReturn' = {l.results}
                 /\ UNCHANGED pagExecuted
  /\ UNCHANGED <<now, opCount, storeVars, calVars, verVars, enfVars, healthFile, tasks,
                 stPc, stRet, lastSaved, lastSavedHealth, monVars, pagCall>>

NextPaginate ==
  \/ \E toolCall \in PaginatedCalls : PaginateStart(toolCall)
  \/ \E response \in PageResponses : PageArrives(response)

\* Every executeTool() call that was made is answered.
SpecPaginate == Init /\ [][NextPaginate]_vars /\ WF_vars(NextPaginate)


\* ================================================================ claims

\* The ConnectorStatus the task of connector c resolved with.
ProbeResult(c) == CHOOSE r \in probe[c].result : TRUE

\* Whether every call the task of connector c made succeeded.
ProbeCallsOk(c) ==
  /\ probe[c].idCall = "ok"
  /\ HasContainerCall(c) => probe[c].listCall = "ok"

\* Whether a call the task of connector c made failed.
ProbeCallFailed(c) == probe[c].idCall = "fail" \/ probe[c].listCall = "fail"

SaveErrors == {"mkdir failed", "writeFile failed"}

\* C1: whatever the outcomes of the probes, calibrate() rejects only with an
\* error of the store's save, never with a probe's error, and after all four
\* probes settled; the snapshot it returns has an entry for each of asana,
\* linear, github and notion.
C1_CalibrateIsolatesProbeFailures ==
  /\ calPc = "rejected" => (calError \subseteq SaveErrors /\ calError # {}
                            /\ AllSettled(probe))
  /\ calPc # "rejected" => calError = {}
  /\ calPc = "returned" =>
       /\ calResult # {}
       /\ \A r \in calResult : DOMAIN r.connectors = Connectors

\* C1 witness: calibrate() returned a snapshot although every probe failed,
\* two at the identity call (asana, notion) and two at the listing call.
C1_Witness ==
  /\ calPc = "returned"
  /\ probe["asana"].idCall = "fail"
  /\ probe["notion"].idCall = "fail"
  /\ probe["linear"].listCall = "fail"
  /\ probe["github"].listCall = "fail"
  /\ \A r \in calResult : \A c \in Connectors : r.connectors[c].status = "failed"

\* What C2 says of one ConnectorStatus cs produced by the probe of c.
StatusWellFormed(c, cs) ==
  /\ ProbeCallsOk(c) => (cs.status = "authenticated" /\ "error" \notin DOMAIN cs)
  /\ ProbeCallFailed(c) =>
       /\ cs.status = "failed"
       /\ "error" \in DOMAIN cs
       /\ DOMAIN cs \cap IdentityFields = {}
  /\ ~("error" \in DOMAIN cs /\ DOMAIN cs \cap IdentityFields # {})

\* C2: every ConnectorStatus a calibration probe produced is authenticated
\* without an error when its identity and container calls both succeeded, and
\* failed with an error and no identity field when either failed; none carries
\* both an identity field and an error.  The same holds of the entry in the
\* returned snapshot.
C2_StatusMatchesProbeOutcome ==
  /\ \A c \in Connectors :
       probe[c].pc = "done" /\ probe[c].result # {} =>
         StatusWellFormed(c, ProbeResult(c))
  /\ calPc = "returned" =>
       \A r \in calResult : \A c \in Connectors :
         StatusWellFormed(c, r.connectors[c])

\* C2 witness: in one returned snapshot, a probe whose identity call succeeded
\* and whose listing call failed, beside an authenticated one.
C2_Witness ==
  /\ calPc = "returned"
  /\ probe["asana"].idCall = "ok" /\ probe["asana"].listCall = "fail"
  /\ ProbeCallsOk("linear")
  /\ \A r \in calResult : r.connectors["linear"].status = "authenticated"

\* C3: save() starts only after all four probes settled; when calibrate()
\* has returned, data/calibration.json holds exactly the returned snapshot,
\* each entry being the result of this call's own probe, with nothing of the
\* snapshot stored before.
C3_SaveAfterProbesFullReplace ==
  /\ calPc \in {"mkdir", "writeJson", "writeYaml", "returned"} => AllSettled(probe)
  /\ calPc = "returned" =>
       /\ calResult # {}
       /\ calFile = {Stringify(r) : r \in calResult}
       /\ \A f \in calFile : \A c \in Connectors :
            f.connectors[c] = StringifyStatus(ProbeResult(c))

\* C3 witness: calibrate() returned over a stored snapshot in which asana was
\* authenticated (with a workspace); asana failed now, and the store holds no
\* identity field for it.
C3_Witness ==
  /\ calPc = "returned"
  /\ prevFile # {}
  /\ \A o \in prevFile : /\ o.connectors["asana"].status = "authenticated"
                         /\ "workspace" \in DOMAIN o.connectors["asana"]
  /\ \A f \in calFile : /\ f.connectors["asana"].status = "failed"
                        /\ DOMAIN f.connectors["asana"] \cap IdentityFields = {}

IdentityCalls == {<<c, "identity">> : c \in Connectors}

\* C4: verify() issues no connector call before load() resolved and none at
\* all when no snapshot is stored, in which case it returns false; with a
\* snapshot stored it issues exactly the four identity calls and returns true
\* if and only if all four succeeded.
C4_VerifyLightweight ==
  /\ verPc = "load" => verCalls = {}
  /\ verPc = "checking" => verCalls = IdentityCalls
  /\ verPc = "returned" =>
       /\ verLoaded = verBefore
       /\ IF verBefore = {}
          THEN verResult = {FALSE} /\ verCalls = {}
          ELSE /\ verCalls = IdentityCalls
               /\ verResult = {\A c \in Connectors : verOutcome[c] = "ok"}

\* C4 witness: with a snapshot stored, verify() returned false because one
\* identity call of the four failed.
C4_Witness ==
  /\ verPc = "returned"
  /\ verBefore # {}
  /\ verOutcome["github"] = "fail"
  /\ \A c \in Connectors \ {"github"} : verOutcome[c] = "ok"
  /\ verResult = {FALSE}

\* C5: from the call of verify() to its return, whatever it returns,
\* data/calibration.json holds what it held when verify() was called, so
\* load() yields the same snapshot after the call as before it.
C5_VerifyLeavesStore ==
  verPc \in {"load", "checking", "returned"} =>
    /\ calFile = verBefore
    /\ Load(calFile) = Load(verBefore)

\* C5 witness: verify() returned false over a stored snapshot, every
\* liveness check having failed.
C5_Witness ==
  /\ verPc = "returned"
  /\ verBefore # {}
  /\ \A c \in Connectors : verOutcome[c] = "fail"
  /\ verResult = {FALSE}

\* ------------------------------------------------------ enforcer claims

\* The EnforcementResult enforce() returned.
Returned == CHOOSE r \in enfResult : TRUE

\* The number of entries of seq equal to x.
Count(seq, x) == Cardinality({i \in DOMAIN seq : seq[i] = x})

\* Whether seq has an injection entry.
HasInjectionEntry(seq) == \E i \in DOMAIN seq : seq[i] \in InjectionNotes

\* The injections whose connector prefix the tool name starts with.
RulesOfTool(tool) ==
  {i \in 1..Len(InjectionRules) : StartsWith(tool, InjectionRules[i].prefix)}

\* C6: every key of the params the caller passed to enforce() is in
\* result.enhanced.params with the value the caller gave it, whatever that
\* value is (empty, zero, false and null included).
C6_CallerKeysPreserved ==
  enfPc = "returned" =>
    \A k \in DOMAIN enfInput :
      /\ k \in DOMAIN heap[Returned.enhanced.params]
      /\ heap[Returned.enhanced.params][k] = enfInput[k]

\* C7: result.original is the unmodified input: after enforce() returned,
\* result.original.params (the caller's own params object) has exactly the
\* keys and values it had when enforce() was called.
C7_OriginalUnmodified ==
  enfPc = "returned" =>
    /\ Returned.original = enfCall
    /\ heap[Returned.original.params] = enfInput

\* Whether the params passed hold an identifier (a value that is not empty,
\* zero, false or null) for every injection of the tool's connector.
FullySpecified ==
  \A i \in RulesOfTool(enfCall.tool) : Truthy(Get(enfInput, InjectionRules[i].param))

\* C8: when the params passed already hold every identifier rule 1 would
\* inject for the tool's connector, modifications has no injection entry and
\* those parameters keep their values in enhanced.params; and enforce() of
\* the enhanced call of an earlier result, over the same snapshot, adds no
\* injection entry and changes no parameter.
C8_IdempotentOnFullySpecified ==
  enfPc = "returned" =>
    /\ FullySpecified =>
         /\ ~HasInjectionEntry(Returned.modifications)
         /\ \A i \in RulesOfTool(enfCall.tool) :
              Get(heap[Returned.enhanced.params], InjectionRules[i].param)
                = enfInput[InjectionRules[i].param]
    /\ enfPass > 1 =>
         /\ ~HasInjectionEntry(Returned.modifications)
         /\ heap[Returned.enhanced.params] = enfInput

\* C8 witness: enforce() returned for the enhanced call of a result whose own
\* pass had injected an identifier.
C8_Witness ==
  /\ enfPc = "returned"
  /\ enfPass = 2
  /\ \E p \in enfPrev : HasInjectionEntry(p.result.modifications)
  /\ ~HasInjectionEntry(Returned.modifications)

\* The tool names of ToolNames that contain a pagination fragment, as a
\* case-sensitive substring: list_tasks, search_, list_issues, list_projects.
PaginatedToolNames ==
  {Tool_asana_list_tasks, Tool_notion_search_pages, Tool_list_issues,
   Tool_my_asana_list_projects}

\* C9: enforce() sets enforce_pagination to true and records one pagination
\* modification exactly when the tool name contains one of the fragments of
\* the code's list as a case-sensitive substring (of the names tried, exactly
\* those of PaginatedToolNames: list_issues is one, get_issue and LIST_TASKS
\* are not); otherwise the result has no enforce_pagination key and no
\* pagination modification.
C9_PaginationFlag ==
  enfPc = "returned" =>
    LET tool == Returned.original.tool
        has == \E f \in PaginationTools : \E i \in 1..Len(tool) :
                 i + Len(f) - 1 <= Len(tool) /\ SubSeq(tool, i, i + Len(f) - 1) = f
        n == Count(Returned.modifications, "Pagination enforcement enabled")
    IN  /\ has <=> tool \in PaginatedToolNames
        /\ IF has
           THEN /\ "enforce_pagination" \in DOMAIN Returned
                /\ Returned.enforce_pagination = TRUE
                /\ n = 1
           ELSE /\ "enforce_pagination" \notin DOMAIN Returned
                /\ n = 0

\* C9 witness: enforce() returned with the flag for a tool name that has the
\* fragment after a connector prefix.
C9_Witness ==
  /\ enfPc = "returned"
  /\ enfCall.tool = Tool_asana_list_tasks
  /\ "enforce_pagination" \in DOMAIN Returned
  /\ Count(Returned.modifications, "Pagination enforcement enabled") = 1

\* C10: chain_operations is in the result exactly when the tool name contains
\* a create fragment and the dependent condition holds (labels given when
\* creating an issue); it is then the two-element chain ending in add_labels
\* with the same labels; otherwise (create_issue without labels, any
\* create_task or create_project) there is no chain_operations and no
\* chaining modification.
C10_ChainIffDependentCondition ==
  enfPc = "returned" =>
    LET params == heap[Returned.enhanced.params]
        dependent == /\ Includes(enfCall.tool, Str_create_issue)
                     /\ Truthy(Get(params, "labels"))
        n == Count(Returned.modifications, "Operation chaining configured")
    IN  IF RequiresChaining(enfCall) /\ dependent
        THEN /\ "chain_operations" \in DOMAIN Returned
             /\ Len(Returned.chain_operations) = 2
             /\ Returned.chain_operations[2].tool = Str_add_labels
             /\ heap[Returned.chain_operations[2].params] = [labels |-> params.labels]
             /\ n = 1
        ELSE /\ "chain_operations" \notin DOMAIN Returned
             /\ n = 0

\* C11: whenever chain_operations is present, its first element has the tool
\* of result.enhanced and params with exactly the keys and values of
\* result.enhanced.params, so an identifier rule 1 injected is in it.
C11_ChainStartsWithEnhanced ==
  enfPc = "returned" /\ "chain_operations" \in DOMAIN Returned =>
    LET first == Returned.chain_operations[1]
    IN  /\ Len(Returned.chain_operations) >= 1
        /\ first.tool = Returned.enhanced.tool
        /\ heap[first.params] = heap[Returned.enhanced.params]
        /\ \A i \in RulesOfTool(enfCall.tool) :
             InjectionRules[i].note \in {Returned.modifications[j] :
                                          j \in DOMAIN Returned.modifications}
               => Get(heap[first.params], InjectionRules[i].param)
                    = SnapshotId(enfLoaded, InjectionRules[i])

\* C11 witness: a chain was built for a call into which rule 1 injected an
\* identifier, so the first element differs from the call as it was passed.
C11_Witness ==
  /\ enfPc = "returned"
  /\ enfPass = 1
  /\ "chain_operations" \in DOMAIN Returned
  /\ HasInjectionEntry(Returned.modifications)
  /\ heap[Returned.chain_operations[1].params] # enfInput

\* The entries of modifications, as a set.
Modifications == {Returned.modifications[j] : j \in DOMAIN Returned.modifications}

\* Whether the snapshot enforce() loaded has an authenticated entry with the
\* identifier of the rule for the rule's connector.
AuthenticatedWithIdentifier(rule) ==
  \E s \in enfLoaded :
    /\ rule.connector \in DOMAIN s.connectors
    /\ s.connectors[rule.connector].status = "authenticated"
    /\ rule.field \in DOMAIN s.connectors[rule.connector]
    /\ s.connectors[rule.connector][rule.field] # Null

\* Whether there is no snapshot, or no entry for the rule's connector in it,
\* or a failed one.
NoUsableEntry(rule) ==
  \/ enfLoaded = {}
  \/ \E s \in enfLoaded :
       \/ rule.connector \notin DOMAIN s.connectors
       \/ s.connectors[rule.connector].status = "failed"

\* C12: enforce() injects a connector's identifier only when the tool name
\* starts with the connector's name, the identifier parameter is absent from
\* the params passed, and the snapshot holds an authenticated entry with the
\* identifier; without a snapshot, or with a missing or failed entry,
\* enforce() returns, the parameter is as passed and no injection is recorded.
C12_InjectsOnlyWhenAbsentAndAuthenticated ==
  enfPc = "returned" =>
    \A i \in 1..Len(InjectionRules) :
      LET rule == InjectionRules[i]
      IN  /\ rule.note \in Modifications =>
               /\ StartsWith(enfCall.tool, rule.prefix)
               /\ rule.param \notin DOMAIN enfInput
               /\ AuthenticatedWithIdentifier(rule)
          /\ NoUsableEntry(rule) =>
               /\ rule.note \notin Modifications
               /\ Get(heap[Returned.enhanced.params], rule.param) = Get(enfInput, rule.param)

\* The params rule 1 produces from the params passed and the snapshot loaded.
ParamsAfterRule1 ==
  InjectIdentifiers([result |-> InitialResult(enfCall),
                     heap |-> [r \in {enfCall.params} |-> enfInput]],
                    enfLoaded).heap[enfCall.params]

\* C13: when rule 2 looked a name up and the lookup found nothing, enforce()
\* returns, enhanced.params is exactly what rule 1 produced (the name fields
\* kept, no id field added), modifications has no 'Resolved name to ID', and
\* rules 3 and 4 are applied as for any other call.
C13_FailedResolutionIsNoOp ==
  enfPc = "returned" /\ enfLookup =>
    LET params == heap[Returned.enhanced.params]
    IN  /\ params = ParamsAfterRule1
        /\ \A k \in NameParams \cap DOMAIN enfInput : params[k] = enfInput[k]
        /\ IdParams \cap DOMAIN params \subseteq DOMAIN enfInput
        /\ "Resolved name to ID" \notin Modifications
        /\ RequiresPagination(enfCall) =>
             /\ "enforce_pagination" \in DOMAIN Returned
             /\ "Pagination enforcement enabled" \in Modifications
        /\ RequiresChaining(enfCall) =>
             /\ "chain_operations" \in DOMAIN Returned
             /\ "Operation chaining configured" \in Modifications

\* C13 witness: enforce() returned for a create call with a name and no id,
\* after rule 1 injected an identifier, with the chain of rule 4 built.
C13_Witness ==
  /\ enfPc = "returned"
  /\ enfLookup
  /\ HasInjectionEntry(Returned.modifications)
  /\ "chain_operations" \in DOMAIN Returned
  /\ NameParams \cap DOMAIN heap[Returned.enhanced.params] # {}

\* ---------------------------------------------------------- store claims

\* C14: save() rejects only out of mkdir or the JSON writeFile, with that
\* error; once the JSON snapshot is written save() never rejects: whether
\* the YAML export succeeds or fails, save() resolves, and the JSON file
\* holds the snapshot given to save().
C14_SaveRejectsOnlyOnPrimaryFailure ==
  [][/\ (calPc' = "rejected" /\ calPc # "rejected") =>
          /\ calPc \in {"mkdir", "writeJson"}
          /\ calError' # {}
          /\ calError' \subseteq SaveErrors
          /\ yamlFile' = yamlFile
     /\ (calPc = "writeYaml" /\ calPc' # "writeYaml") =>
          /\ calPc' = "returned"
          /\ calError' = {}
          /\ calFile' = {Stringify(st) : st \in calState}
          /\ calFile' = calFile
     /\ (calPc = "writeJson" /\ calPc' = "writeYaml") =>
          calFile' = {Stringify(st) : st \in calState}
    ]_vars

\* C14 witness: save() resolved with the JSON snapshot written although the
\* YAML export failed (the export is absent or is an older snapshot's).
C14_Witness ==
  /\ calPc = "returned"
  /\ calFile # {}
  /\ calFile = {Stringify(st) : st \in calState}
  /\ yamlFile # {f.timestamp : f \in calFile}

\* The result of the caller's call op, once it resolved.
Resolved(op) == {r \in stRet : r.op = op /\ "value" \in DOMAIN r}

C16_NeedsRecalibrationStrict ==
  \A r \in Resolved("needsRecalibration") :
    /\ calFile = {} => r.value = TRUE
    /\ \A f \in calFile :
         LET ageTicks == r.at - f.timestamp
         IN  /\ r.value = (ageTicks > r.arg * TicksPerHour)
             /\ ageTicks = r.arg * TicksPerHour => r.value = FALSE
             /\ ageTicks = r.arg * TicksPerHour + 1 => r.value = TRUE

\* C16 witness: needsRecalibration(1) resolved with false for a snapshot
\* exactly one hour old.
C16_Witness ==
  \E r \in Resolved("needsRecalibration") : \E f \in calFile :
    /\ r.arg = 1
    /\ r.at - f.timestamp = TicksPerHour
    /\ r.value = FALSE

\* ---------------------------------------------------- health monitor claims

\* The health snapshots built so far that are still held: those of the
\* cycles about to save, and the one stored.
HealthSnapshots ==
  UNION {tasks[i].health : i \in Cycles} \cup lastSavedHealth \cup healthFile

\* C17: in every health snapshot a check cycle builds, overall is healthy
\* exactly when all four connectors are healthy, degraded exactly when at
\* least one connector is failed, and warning exactly in the remaining cases.
C17_OverallAggregation ==
  \A h \in HealthSnapshots :
    LET status == [c \in DOMAIN h.connectors |-> h.connectors[c].status]
        allHealthy == \A c \in Connectors : status[c] = "healthy"
        someFailed == \E c \in Connectors : status[c] = "failed"
    IN  /\ DOMAIN h.connectors = Connectors
        /\ h.overall \in {"healthy", "degraded", "warning"}
        /\ h.overall = "healthy" <=> allHealthy
        /\ h.overall = "degraded" <=> someFailed
        /\ h.overall = "warning" <=> (~allHealthy /\ ~someFailed)

\* C17 witness: a stored snapshot that is degraded with one connector failed
\* and the other three healthy.
C17_Witness ==
  \E h \in healthFile :
    /\ h.overall = "degraded"
    /\ Cardinality({c \in Connectors : h.connectors[c].status = "failed"}) = 1
    /\ Cardinality({c \in Connectors : h.connectors[c].status = "healthy"}) = 3

\* Whether start() was called at least once and stop() never.
OnlyStarts == monHist # <<>> /\ \A k \in DOMAIN monHist : monHist[k] = "start"

\* C18: start() on an idle monitor sets it monitoring, launches one cycle
\* at once and creates one timer; start() on a monitoring monitor changes
\* nothing (no cycle, no timer); so after start() calls only, however many,
\* there is one timer and one cycle was launched by start().
C18_StartIdempotent ==
  /\ [][monHist' = Append(monHist, "start") =>
          IF monitoringActive
          THEN UNCHANGED <<monitoringActive, tasks, timers, pendingTicks, launched>>
          ELSE /\ monitoringActive'
               /\ timers' = timers + 1
               /\ Len(tasks') = Len(tasks) + 1
               /\ SubSeq(tasks', 1, Len(tasks)) = tasks
               /\ tasks'[Len(tasks')].kind = "cycle"
               /\ tasks'[Len(tasks')].pc = "checking"]_vars
  /\ [](OnlyStarts =>
          /\ monitoringActive
          /\ timers = 1
          /\ Cardinality({i \in Cycles : tasks[i].origin = "start"}) = 1)

\* C18 witness: start() was called twice in a row on a new monitor.
C18_Witness ==
  /\ monHist = <<"start", "start">>
  /\ monitoringActive
  /\ timers = 1
  /\ Len(tasks) = 1

\* C19: after any sequence of start() and stop() calls at most one timer is
\* live, and at most one cycle is launched by the timers per period.
C19_AtMostOneTimer ==
  /\ timers <= 1
  /\ launched <= 1

\* C20: stop() clears the flag and touches no cycle; while the monitor is
\* idle a new cycle begins only by start() (a timer's callback launches
\* none); and a cycle in flight can take its next step whatever the flag, up
\* to writing its snapshot.
C20_StopLetsCyclesFinish ==
  /\ [][monHist' = Append(monHist, "stop") =>
          /\ ~monitoringActive'
          /\ UNCHANGED <<tasks, healthFile, timers>>]_vars
  /\ [][(~monitoringActive /\ Len(tasks') > Len(tasks)) =>
          monHist' = Append(monHist, "start")]_vars
  /\ [](\A i \in Cycles :
          /\ tasks[i].pc = "checking" =>
               \A o \in MonitorOutcomes : ENABLED CycleChecksSettle(i, o)
          /\ tasks[i].pc = "mkdir" => ENABLED HealthMkdirOk(i)
          /\ tasks[i].pc = "write" => ENABLED HealthWriteOk(i))

\* C20 witness: the monitor is idle after start() and stop(); the timer's
\* callback ran in a period after stop() and launched nothing; the cycle in
\* flight at stop() finished, and its snapshot is the one stored.
C20_Witness ==
  /\ monHist = <<"start", "stop">>
  /\ ~monitoringActive
  /\ now = 1
  /\ pendingTicks = 0
  /\ Len(tasks) = 1
  /\ 1 \in inFlightAtStop
  /\ tasks[1].pc = "done"
  /\ \E h \in healthFile : h.timestamp = tasks[1].start

\* C21: in every check cycle the alert is raised exactly when the cycle's
\* overall health is not 'healthy', it lists exactly the connectors whose
\* status is 'failed', and the snapshot is handed to saveHealth() whatever the
\* overall health: a write that resolves leaves exactly that snapshot stored.
C21_AlertIffUnhealthyAndSnapshotSaved ==
  /\ [](\A i \in Cycles :
          /\ tasks[i].pc = "checking" => tasks[i].alert = {} /\ tasks[i].health = {}
          /\ tasks[i].pc \in {"mkdir", "write"} =>
               \E h \in tasks[i].health :
                 /\ tasks[i].alert # {} <=> h.overall # "healthy"
                 /\ \A a \in tasks[i].alert :
                      {a.failed[k] : k \in DOMAIN a.failed} =
                        {c \in Connectors : h.connectors[c].status = "failed"}
          /\ tasks[i].pc = "done" =>
               \E h \in healthFile :
                 /\ tasks[i].alert # {} <=> h.overall # "healthy"
                 /\ \A a \in tasks[i].alert :
                      {a.failed[k] : k \in DOMAIN a.failed} =
                        {c \in Connectors : h.connectors[c].status = "failed"})
  /\ [][\A i \in Cycles :
          /\ tasks[i].pc = "checking" /\ tasks'[i].pc # "checking" =>
               tasks'[i].pc = "mkdir" /\ tasks'[i].health # {}
          /\ tasks[i].pc = "write" /\ tasks'[i].pc = "done" =>
               \E h \in tasks[i].health :
                 healthFile' = {StringifyHealth(h)} /\ h.timestamp = tasks[i].start]_vars

\* A degraded cycle has alerted on its two failed connectors and its snapshot
\* is stored.
C21_Witness ==
  \E i \in Cycles :
    /\ tasks[i].pc = "done"
    /\ \E a \in tasks[i].alert : Len(a.failed) = 2
    /\ \E h \in healthFile : h.overall = "degraded"

\* The outcome of the check of connector c in cycle task t, as it resolved.
OwnOutcome(t, c) ==
  LET k == CHOOSE j \in DOMAIN t.order : t.order[j][1] = c IN t.order[k][2]

\* The snapshot of cycle task t gives every connector the status of its own
\* check.
OwnStatuses(t, h) ==
  \A c \in Connectors :
    h.connectors[c].status = (IF OwnOutcome(t, c) = "ok" THEN "healthy" ELSE "failed")

RuleNotes ==
  [i \in 1..Len(InjectionRules) |-> InjectionRules[i].note]
    \o <<"Resolved name to ID", "Pagination enforcement enabled",
         "Operation chaining configured">>

\* Whether the result enforce() returned shows the rewrite that note stands
\* for: the injected parameter differs from what the caller passed, the
\* params differ from what rule 1 left, or the result carries the flag or the
\* chain.
RewriteApplied(note) ==
  LET params == heap[Returned.enhanced.params]
  IN  IF note \in InjectionNotes
      THEN \E i \in 1..Len(InjectionRules) :
             /\ InjectionRules[i].note = note
             /\ InjectionRules[i].param \in DOMAIN params
             /\ \/ InjectionRules[i].param \notin DOMAIN enfInput
                \/ params[InjectionRules[i].param] # enfInput[InjectionRules[i].param]
      ELSE IF note = "Resolved name to ID" THEN params # ParamsAfterRule1
      ELSE IF note = "Pagination enforcement enabled"
           THEN "enforce_pagination" \in DOMAIN Returned
      ELSE "chain_operations" \in DOMAIN Returned

\* C24: the modifications of every enforce() result are exactly the entries
\* of the rewrites that were applied, one each, in the order of the rules
\* (injections, name resolution, pagination, chaining); a rule that rewrote
\* nothing has no entry.
C24_ModificationsMatchRewritesInOrder ==
  enfPc = "returned" =>
    Returned.modifications = SelectSeq(RuleNotes, RewriteApplied)

\* enforce() returned for a paginated Asana tool after injecting the
\* workspace: two entries, the injection first.
C24_Witness ==
  /\ enfPc = "returned"
  /\ enfPass = 1
  /\ Returned.modifications =
       <<"Injected Asana workspace ID", "Pagination enforcement enabled">>
  /\ "workspace" \notin DOMAIN enfInput

\* Whether key k of params holds a value that is not empty, zero, false,
\* null or undefined.
Given(params, k) ==
  k \in DOMAIN params /\ params[k] \notin {JsEmpty, JsZero, JsFalse, JsNull, Undefined}

\* C29: rule 2 attempts a lookup exactly when the params as rule 1 left them
\* have name without any of id, gid and teamId, or teamName without teamId,
\* or projectName without projectId.  So for a tool starting with 'linear'
\* called with only name or only teamName, over a snapshot that holds a
\* Linear team, rule 1 injects teamId and no lookup is attempted.
C29_LookupDecidedAfterInjection ==
  enfPc \in {"resolve", "chain", "returned"} =>
    /\ enfPc = "resolve" =>
         LET params == heap[Returned.enhanced.params]
         IN  enfLookup <=>
               \/ /\ Given(params, "name")
                  /\ ~Given(params, "id")
                  /\ ~Given(params, "gid")
                  /\ ~Given(params, "teamId")
               \/ Given(params, "teamName") /\ ~Given(params, "teamId")
               \/ Given(params, "projectName") /\ ~Given(params, "projectId")
    /\ ( /\ StartsWith(enfCall.tool, Str_linear)
         /\ DOMAIN enfInput \in {{"name"}, {"teamName"}}
         /\ \E s \in enfLoaded : /\ "team" \in DOMAIN s.connectors["linear"]
                                  /\ s.connectors["linear"]["team"] # Null )
       => /\ Given(heap[Returned.enhanced.params], "teamId")
          /\ Returned.modifications[1] = "Injected Linear team ID"
          /\ ~enfLookup

\* enforce() returned for a linear tool called with a name only: the team was
\* injected and nothing was looked up.
C29_Witness ==
  /\ enfPc = "returned"
  /\ enfPass = 1
  /\ StartsWith(enfCall.tool, Str_linear)
  /\ DOMAIN enfInput = {"name"}
  /\ "Injected Linear team ID" \in Modifications
  /\ ~enfLookup

\* C26: executeWithPagination() terminates whatever the pages say (more
\* pages every time, the same cursor again, a next page without a cursor):
\* executeTool() is called at most maxPaginationAttempts times, every answer
\* uses up one attempt, and the call returns the results accumulated.
C26_PaginationTerminatesWithinCap ==
  /\ [](/\ pagExecuted <= maxPaginationAttempts
        /\ pagPc = "fetching" => pagExecuted = pagAttempts + 1
        /\ pagPc = "returned" => pagReturn = {pagResults} /\ pagExecuted = pagAttempts)
  /\ [][pagPc = "fetching" => pagAttempts' = pagAttempts + 1]_pagVars
  /\ <>(pagPc = "returned")

\* Every page reported a next page and the call returned after the last
\* attempt allowed, with one item from each page.
C26_Witness ==
  /\ pagPc = "returned"
  /\ pagHasMore
  /\ pagExecuted = maxPaginationAttempts
  /\ \E r \in pagReturn : Len(r) = maxPaginationAttempts

\* Whether response is of none of the shapes the loop tells apart: not an
\* array and with neither a nodes nor a data field.
Unrecognized(response) ==
  /\ "isArray" \notin DOMAIN response
  /\ "nodes" \notin DOMAIN response
  /\ "data" \notin DOMAIN response

C27_StoredHealthNeverGoesBack ==
  [][\A old \in LoadHealth(healthFile), new \in LoadHealth(healthFile') :
       new.timestamp >= old.timestamp]_vars

\* C28: no check cycle produces a connector status of 'warning': in every
\* health snapshot each connector is 'healthy' or 'failed' ('healthy' when
\* its identity call succeeded, for the snapshots whose cycle is still
\* saving), and overall is 'healthy' or 'degraded', never 'warning'.
C28_NoWarningStatus ==
  /\ \A h \in HealthSnapshots :
       /\ \A c \in Connectors : h.connectors[c].status \in {"healthy", "failed"}
       /\ h.overall \in {"healthy", "degraded"}
  /\ \A i \in Cycles : \A h \in tasks[i].health : \A c \in Connectors :
       h.connectors[c].status = "healthy" <=> OwnOutcome(tasks[i], c) = "ok"

\* All four identity calls failed: the stored snapshot has four failed
\* connectors and is degraded.
C28_Witness ==
  /\ \E i \in Cycles :
       /\ tasks[i].pc = "done"
       /\ \A k \in DOMAIN tasks[i].order : tasks[i].order[k][2] = "fail"
  /\ \E h \in healthFile :
       /\ \A c \in Connectors : h.connectors[c].status = "failed"
       /\ h.overall = "degraded"

====
